---- MODULE Spec2Model ----
(***************************************************************************)
(* Model of the AI server: the command relay (the WebSocket server's       *)
(* connection/message/close handlers, the pending command table with its   *)
(* timers, sendCommandToSim), the /api/chat handlers and the agent loop    *)
(* AIController.processMessage with executeTool.                           *)
(***************************************************************************)
EXTENDS Integers, Sequences, FiniteSets, TLC

\* ---------------------------------------------------------------- bounds
MaxSockets == 2      \* connections the simulation side opens in one run
MaxCmds == 2         \* commands a caller of the bare relay issues in one run
MaxReqs == 1         \* /api/chat requests in one run
MaxToolTurns == 1    \* model turns with tool invocations in one run

Sockets == 1..MaxSockets
Ids == 0..(MaxCmds - 1)

\* Default timeout for blocking commands (ms)
COMMAND_TIMEOUT == 30000
\* timeout of the best-effort stop command (ms)
STOP_TIMEOUT == 5000

\* the (action, timeout) pairs a caller of the bare relay passes
RelayCalls == {<<"observe_scene", COMMAND_TIMEOUT>>}
NoSocket == 0
UndefinedId == -1   \* an id field that is absent from a frame

\* a JavaScript value handed around as a command result: undefined, or an
\* object with an error message ("" when it has none), image fields and other
\* data fields; hasError says whether the object has an error field at all
Value(defined, error, head, orbit, data) ==
  [defined |-> defined, error |-> error, hasError |-> error # "",
   head_camera_image |-> head, orbit_camera_image |-> orbit, data |-> data]

\* an object whose error field is the empty string: { error: "", ... }
EmptyErrorValue(head, orbit, data) ==
  [Value(TRUE, "", head, orbit, data) EXCEPT !.hasError = TRUE]

Undefined == Value(FALSE, "", FALSE, FALSE, FALSE)

\* { error: message }
ErrorValue(message) == Value(TRUE, message, FALSE, FALSE, FALSE)

\* the result field of a command_result frame: an object with data fields, an
\* object with an error field, or no result field at all
Results == {Value(TRUE, "", FALSE, FALSE, TRUE), ErrorValue("failed"), Undefined}

\* Safety limit for tool call loops
MaxIterations == 20

Reqs == 1..MaxReqs
\* the requests of a run in which one more request arrives than Reqs holds
OverlapReqs == 1..(MaxReqs + 1)
NoToken == 0         \* this._abortController = null

VARIABLES
  readyState,        \* per socket: "NEW" (not yet accepted), "OPEN", "CLOSING", "CLOSED"
  simulationSocket,  \* the registered socket, NoSocket for null
  pendingCommands,   \* Map id -> {resolve/reject (of which promise), timer}
  commandIdCounter,  \* next correlation id
  timers,            \* armed setTimeout handles -> [delay, due]
  promises,          \* promise created by each accepted sendCommandToSim call
  frames,            \* command frames written to the registered socket, in order
  lastOp,            \* the handler that ran last, with its outcome
  conversationHistory,  \* AIController.conversationHistory
  dataSourceOverrides,  \* AIController.dataSourceOverrides
  abortController,      \* AIController._abortController: the request that made it
  aborted,              \* signal.aborted of the AbortController of each request
  calls,                \* per request: where its handler is suspended, and its locals
  stream,               \* per request: the events written to its response
  toolTurns,            \* model turns with tool invocations handed out so far
  stopAttempts,         \* per request: calls of sendCommand('stop_motors') so far
  wsClient,             \* WebSocketClient: ws, connected, reconnectTimer
  browser,              \* the page's WebSocket objects, armed timeouts, running
                        \* command handlers and the frames it has sent
  clientLog,            \* which calls of connect() and disconnect() were made
  moveBase              \* one call of SimulationAPI._moveBase: its closure and data.ctrl

relayVars == <<readyState, simulationSocket, pendingCommands, commandIdCounter,
               timers, promises, frames>>
agentVars == <<conversationHistory, dataSourceOverrides, abortController, aborted,
               calls, stream, toolTurns, stopAttempts>>
simVars == <<wsClient, browser, clientLog, moveBase>>
vars == <<readyState, simulationSocket, pendingCommands, commandIdCounter,
          timers, promises, frames, lastOp, conversationHistory,
          dataSourceOverrides, abortController, aborted, calls, stream, toolTurns,
          stopAttempts, wsClient, browser, clientLog, moveBase>>

\* ---------------------------------------------------------------- helpers
\* f with key k removed (Map.delete / clearTimeout)
Without(f, k) == [x \in (DOMAIN f) \ {k} |-> f[x]]

\* f with key k set to v (Map.set / setTimeout)
With(f, k, v) == [x \in (DOMAIN f) \cup {k} |-> IF x = k THEN v ELSE f[x]]

EmptyMap == [x \in {} |-> 0]

NewPromise == [state |-> "pending", kind |-> "none", result |-> Undefined,
               settles |-> 0, due |-> FALSE]

\* has the delay of timer t elapsed? (FALSE when it is not armed)
IsDue(tm, t) == t \in DOMAIN tm /\ tm[t].due

\* resolve()/reject() of a promise: only the first call settles it; every call
\* is counted (capped at 2) so that a second settle attempt is observable
Settle(p, state, kind, result, due) ==
  IF p.state = "pending"
    THEN [state |-> state, kind |-> kind, result |-> result,
          settles |-> 1, due |-> due]
    ELSE [p EXCEPT !.settles = 2]

\* what the handler that ran last did: its kind, whether it took its main
\* branch, the id (or socket) it was about and the value it delivered
Op(op, ok, id, result) == [op |-> op, ok |-> ok, id |-> id, result |-> result]

\* lastOp after a handler has run; a specification that starts with the log
\* switched off keeps it off
Log(op, ok, id, result) ==
  IF lastOp.op = "off" THEN lastOp ELSE Op(op, ok, id, result)

\* (mutant) only the null check, no readyState check
IsOpen_NonNull(s) == s # NoSocket

\* simulationSocket && simulationSocket.readyState === WebSocket.OPEN
IsOpen(s) == s # NoSocket /\ readyState[s] = "OPEN"

NoTimer == 0         \* this.reconnectTimer = null

\* the WebSocket objects of the page that exist at one time
ClientSockets == 1..MaxSockets

\* the result of a _moveBase call: success and the distance or angle moved
MoveResult(success, moved) == [success |-> success, moved |-> moved]

\* _moveBase has not been called
NoMove == [state |-> "idle", direction |-> "", amount |-> 0, elapsed |-> 0,
           travelled |-> 0, ctrl |-> <<0, 0>>, result |-> MoveResult(FALSE, 0)]

\* the locals of a processMessage call that has not started
NoCall == [pc |-> "idle", maxIterations |-> 0, finalText |-> <<>>,
           toolUseBlocks |-> <<>>, k |-> 0, toolResults |-> <<>>,
           wait |-> UndefinedId, imm |-> NewPromise]

InitState ==
  /\ conversationHistory = <<>>
  /\ dataSourceOverrides = [head_camera |-> "T", orbit_camera |-> "T", state_data |-> "T"]
  /\ abortController = NoToken
  /\ aborted = [r \in OverlapReqs |-> FALSE]
  /\ calls = [r \in OverlapReqs |-> NoCall]
  /\ stream = [r \in OverlapReqs |-> <<>>]
  /\ toolTurns = 0
  /\ stopAttempts = [r \in OverlapReqs |-> 0]
  /\ readyState = [s \in Sockets |-> "NEW"]
  /\ simulationSocket = NoSocket
  /\ pendingCommands = EmptyMap
  /\ commandIdCounter = 0
  /\ timers = EmptyMap
  /\ promises = EmptyMap
  /\ frames = <<>>
  /\ wsClient = [ws |-> NoSocket, connected |-> FALSE, reconnectTimer |-> NoTimer]
  /\ browser = [readyState |-> [s \in ClientSockets |-> "NONE"], timeouts |-> EmptyMap,
                jobs |-> EmptyMap, sent |-> <<>>]
  /\ clientLog = [started |-> FALSE, disconnected |-> FALSE, everDisconnected |-> FALSE,
                  madeBy |-> [s \in ClientSockets |-> "none"]]
  /\ moveBase = NoMove

\* the relay alone, with the log of handlers on
InitRelay ==
  /\ InitState
  /\ lastOp = Op("init", TRUE, UndefinedId, Undefined)

\* ---------------------------------------------------------------- handlers
\* wss.on('connection'): the new socket becomes the registered one
Connection(s) ==
  /\ readyState[s] = "NEW"
  /\ \A t \in Sockets : t < s => readyState[t] # "NEW"
  /\ readyState' = [readyState EXCEPT ![s] = "OPEN"]
  /\ simulationSocket' = s
  /\ lastOp' = Log("other", TRUE, UndefinedId, Undefined)
  /\ UNCHANGED <<pendingCommands, commandIdCounter, timers, promises, frames>>

\* the closing handshake of a socket starts: readyState leaves OPEN before
\* the 'close' event is emitted
BeginClose(s) ==
  /\ readyState[s] = "OPEN"
  /\ readyState' = [readyState EXCEPT ![s] = "CLOSING"]
  /\ lastOp' = Log("other", TRUE, UndefinedId, Undefined)
  /\ UNCHANGED <<simulationSocket, pendingCommands, commandIdCounter, timers,
                 promises, frames>>

\* (mutant) the close handler only clears the table
RejectAll_None(pc, tm, pr) == pr

\* the promises after the close handler's loop over pendingCommands
RejectAll(pc, tm, pr) ==
  [i \in DOMAIN pr |->
     IF i \in {pc[k].promise : k \in DOMAIN pc}
       THEN Settle(pr[i], "rejected", "Disconnected", Undefined, IsDue(tm, i))
       ELSE pr[i]]

\* (mutant) the close handler leaves the timers armed
ClearAll_None(pc, tm) == tm

\* the timers after the close handler's loop over pendingCommands
ClearAll(pc, tm) ==
  [t \in (DOMAIN tm) \ {pc[k].timer : k \in DOMAIN pc} |-> tm[t]]

\* ws.on('close')
Close(s) ==
  /\ readyState[s] \in {"OPEN", "CLOSING"}
  /\ readyState' = [readyState EXCEPT ![s] = "CLOSED"]
  /\ simulationSocket' = IF simulationSocket = s THEN NoSocket ELSE simulationSocket
  /\ promises' = RejectAll(pendingCommands, timers, promises)
  /\ timers' = ClearAll(pendingCommands, timers)
  /\ pendingCommands' = EmptyMap
  /\ lastOp' = Log("close", TRUE, s, Undefined)
  /\ UNCHANGED <<commandIdCounter, frames>>

\* frames the simulation side can put on a socket
InFrames ==
  [type : {"command_result"},
   id : (DOMAIN promises) \cup {commandIdCounter, UndefinedId},
   result : Results]
    \cup {[type |-> "other", id |-> UndefinedId, result |-> Undefined],
          [type |-> "malformed", id |-> UndefinedId, result |-> Undefined]}

\* does the message handler find a pending entry for this frame?
Matches(msg) ==
  /\ msg.type = "command_result"
  /\ msg.id # UndefinedId
  /\ msg.id \in DOMAIN pendingCommands

\* (mutant) the handler settles the oldest pending command, whatever the id
Message_Oldest(s, msg) ==
  /\ readyState[s] \in {"OPEN", "CLOSING"}
  /\ IF Matches(msg)
       THEN LET first == CHOOSE i \in DOMAIN pendingCommands :
                           \A j \in DOMAIN pendingCommands : i <= j
                pending == pendingCommands[first] IN
            /\ timers' = Without(timers, pending.timer)
            /\ pendingCommands' = Without(pendingCommands, first)
            /\ promises' = [promises EXCEPT ![pending.promise] =
                 Settle(@, "resolved", "result", msg.result, FALSE)]
       ELSE UNCHANGED <<timers, pendingCommands, promises>>
  /\ lastOp' = Log("message", Matches(msg), msg.id,
                  IF Matches(msg) THEN msg.result ELSE Undefined)
  /\ UNCHANGED <<readyState, simulationSocket, commandIdCounter, frames>>

\* (mutant) the handler resolves by id without looking at the pending table
Message_Unguarded(s, msg) ==
  /\ readyState[s] \in {"OPEN", "CLOSING"}
  /\ IF msg.type = "command_result" /\ msg.id \in DOMAIN promises
       THEN /\ timers' = Without(timers, msg.id)
            /\ pendingCommands' = Without(pendingCommands, msg.id)
            /\ promises' = [promises EXCEPT ![msg.id] =
                 Settle(@, "resolved", "result", msg.result, FALSE)]
       ELSE UNCHANGED <<timers, pendingCommands, promises>>
  /\ lastOp' = Log("message", Matches(msg), msg.id,
                  IF Matches(msg) THEN msg.result ELSE Undefined)
  /\ UNCHANGED <<readyState, simulationSocket, commandIdCounter, frames>>

\* (mutant) the handler resolves the command but leaves its timer armed
Message_KeepsTimer(s, msg) ==
  /\ readyState[s] \in {"OPEN", "CLOSING"}
  /\ IF Matches(msg)
       THEN LET pending == pendingCommands[msg.id] IN
            /\ timers' = timers
            /\ pendingCommands' = Without(pendingCommands, msg.id)
            /\ promises' = [promises EXCEPT ![pending.promise] =
                 Settle(@, "resolved", "result", msg.result, FALSE)]
       ELSE UNCHANGED <<timers, pendingCommands, promises>>
  /\ lastOp' = Log("message", Matches(msg), msg.id,
                  IF Matches(msg) THEN msg.result ELSE Undefined)
  /\ UNCHANGED <<readyState, simulationSocket, commandIdCounter, frames>>

\* ws.on('message')
Message(s, msg) ==
  /\ readyState[s] \in {"OPEN", "CLOSING"}
  /\ IF Matches(msg)
       THEN LET pending == pendingCommands[msg.id] IN
            /\ timers' = Without(timers, pending.timer)
            /\ pendingCommands' = Without(pendingCommands, msg.id)
            /\ promises' = [promises EXCEPT ![pending.promise] =
                 Settle(@, "resolved", "result", msg.result, FALSE)]
       ELSE UNCHANGED <<timers, pendingCommands, promises>>
  /\ lastOp' = Log("message", Matches(msg), msg.id,
                  IF Matches(msg) THEN msg.result ELSE Undefined)
  /\ UNCHANGED <<readyState, simulationSocket, commandIdCounter, frames>>

\* (mutant) the callback runs before the delay has elapsed
TimerFire_Early(id) ==
  /\ id \in DOMAIN timers
  /\ timers' = Without(timers, id)
  /\ pendingCommands' = Without(pendingCommands, id)
  /\ promises' = [promises EXCEPT ![id] =
       Settle(@, "rejected", "Timeout", Undefined, IsDue(timers, id))]
  /\ lastOp' = Log("timer", TRUE, id, Undefined)
  /\ UNCHANGED <<readyState, simulationSocket, commandIdCounter, frames>>

\* (mutant) one timer expiry rejects every pending command
TimerFire_All(id) ==
  /\ id \in DOMAIN timers
  /\ timers[id].due
  /\ timers' = EmptyMap
  /\ pendingCommands' = EmptyMap
  /\ promises' = [i \in DOMAIN promises |->
       IF i \in DOMAIN pendingCommands
         THEN Settle(promises[i], "rejected", "Timeout", Undefined, IsDue(timers, i))
         ELSE promises[i]]
  /\ lastOp' = Log("timer", TRUE, id, Undefined)
  /\ UNCHANGED <<readyState, simulationSocket, commandIdCounter, frames>>

\* the callback of the timer armed by the call that allocated id
TimerFire(id) ==
  /\ id \in DOMAIN timers
  /\ timers[id].due
  /\ timers' = Without(timers, id)
  /\ pendingCommands' = Without(pendingCommands, id)
  /\ promises' = [promises EXCEPT ![id] =
       Settle(@, "rejected", "Timeout", Undefined, IsDue(timers, id))]
  /\ lastOp' = Log("timer", TRUE, id, Undefined)
  /\ UNCHANGED <<readyState, simulationSocket, commandIdCounter, frames>>

\* the delay of an armed timer elapses: its callback may now run
Expire(t) ==
  /\ t \in DOMAIN timers
  /\ ~timers[t].due
  /\ timers' = [timers EXCEPT ![t].due = TRUE]
  /\ lastOp' = Log("other", TRUE, UndefinedId, Undefined)
  /\ UNCHANGED <<readyState, simulationSocket, pendingCommands, commandIdCounter,
                 promises, frames>>

\* (mutant) the id is taken from the size of the pending table
FreshId_TableSize == Cardinality(DOMAIN pendingCommands)

\* const id = commandIdCounter++ : the id the next accepted command gets
FreshId == commandIdCounter

\* (mutant) sendCommandToSim arms no timer for the command it sends
SendOn_NoTimer(live, action, params, timeout) ==
  IF ~IsOpen(simulationSocket)
    THEN /\ lastOp' = Log("send", FALSE, UndefinedId, ErrorValue("NotConnected"))
         /\ promises' = live
         /\ UNCHANGED <<readyState, simulationSocket, pendingCommands,
                        commandIdCounter, timers, frames>>
    ELSE LET id == commandIdCounter IN
         /\ commandIdCounter' = id + 1
         /\ promises' = With(live, id, NewPromise)
         /\ pendingCommands' = With(pendingCommands, id, [promise |-> id, timer |-> id])
         /\ frames' = Append(frames, [type |-> "command", id |-> id,
                                      action |-> action, params |-> params])
         /\ lastOp' = Log("send", TRUE, id, Undefined)
         /\ UNCHANGED <<readyState, simulationSocket, timers>>

\* the body of sendCommandToSim; live is the promises that are still referenced
\* when it is called (a caller that has consumed the value of a settled promise
\* drops it)
SendOn(live, action, params, timeout) ==
  IF ~IsOpen(simulationSocket)
    THEN /\ lastOp' = Log("send", FALSE, UndefinedId, ErrorValue("NotConnected"))
         /\ promises' = live
         /\ UNCHANGED <<readyState, simulationSocket, pendingCommands,
                        commandIdCounter, timers, frames>>
    ELSE LET id == FreshId IN
         /\ commandIdCounter' = id + 1
         /\ timers' = With(timers, id, [delay |-> timeout, due |-> FALSE])
         /\ promises' = With(live, id, NewPromise)
         /\ pendingCommands' = With(pendingCommands, id, [promise |-> id, timer |-> id])
         /\ frames' = Append(frames, [type |-> "command", id |-> id,
                                      action |-> action, params |-> params])
         /\ lastOp' = Log("send", TRUE, id, Undefined)
         /\ UNCHANGED <<readyState, simulationSocket>>

\* sendCommandToSim(action, params, timeout)
sendCommandToSim(action, params, timeout) == SendOn(promises, action, params, timeout)

\* params of a command that takes none: {}
NoParams == [sources |-> <<>>]

\* a caller of the relay issues one command
Send(action, timeout) ==
  /\ commandIdCounter < MaxCmds
  /\ sendCommandToSim(action, NoParams, timeout)

\* the relay's own events
RelayEvent ==
  \/ \E s \in Sockets : Connection(s)
  \/ \E s \in Sockets : BeginClose(s)
  \/ \E s \in Sockets : Close(s)
  \/ \E s \in Sockets, msg \in InFrames : Message(s, msg)
  \/ \E id \in DOMAIN timers : TimerFire(id)
  \/ \E id \in DOMAIN timers : Expire(id)

NextRelay ==
  \/ RelayEvent /\ UNCHANGED <<agentVars, simVars>>
  \/ \E c \in RelayCalls : Send(c[1], c[2]) /\ UNCHANGED <<agentVars, simVars>>

SpecRelay == InitRelay /\ [][NextRelay]_vars

\* the event loop runs every due timer callback, and every delay elapses
FairSpecRelay ==
  /\ SpecRelay
  /\ \A id \in Ids : /\ WF_vars(Expire(id) /\ UNCHANGED <<agentVars, simVars>>)
                      /\ WF_vars(TimerFire(id) /\ UNCHANGED <<agentVars, simVars>>)

\* ================================================================ tools
\* the sources object of an observe_scene input, or the dataSources of a
\* /api/chat body: each field "T", "F" or "U" (absent)
NoSources == [head_camera |-> "U", orbit_camera |-> "U", state_data |-> "U"]

TextBlock(text) ==
  [type |-> "text", text |-> text, id |-> "", name |-> "", input |-> NoSources]

ToolUse(id, name, input) ==
  [type |-> "tool_use", text |-> "", id |-> id, name |-> name, input |-> input]

\* the turns the model can return
TurnText == [content |-> <<TextBlock("a"), TextBlock("d")>>, stop_reason |-> "end_turn"]

\* a turn of text that was cut off at max_tokens
TurnCut == [content |-> <<TextBlock("e")>>, stop_reason |-> "max_tokens"]

TurnTools ==
  [content |-> <<TextBlock("b"), ToolUse("tu1", "observe_scene", NoSources),
                 ToolUse("tu2", "fly", NoSources)>>,
   stop_reason |-> "tool_use"]

\* tool_use blocks in a turn that nevertheless ends the conversation turn
TurnMixed ==
  [content |-> <<ToolUse("tu3", "observe_scene", NoSources), TextBlock("c")>>,
   stop_reason |-> "end_turn"]

Turns == {TurnText, TurnTools, TurnMixed}

\* the turns of a run that follows a single call
CallTurns == Turns \cup {TurnCut}

\* (mutant) a ?? c: the session default is not consulted
Coalesce_SkipsDefault(a, b, c) == IF a # "U" THEN a ELSE c

\* a ?? b ?? c
Coalesce(a, b, c) == IF a # "U" THEN a ELSE IF b # "U" THEN b ELSE c

\* the tools of the switch in executeTool that take their timeout as is
PlainTools == {"move_base", "move_arm", "set_gripper", "move_head",
               "get_robot_state", "get_scene_objects", "reset_robot"}

\* (mutant) a name outside the switch is passed on to the simulation
ToolCall_ForwardsUnknown(toolName, toolInput, overrides) ==
  IF toolName = "observe_scene"
    THEN [known |-> TRUE, action |-> "observe_scene",
          params |-> [sources |-> <<Coalesce(toolInput.head_camera, overrides.head_camera, "T"),
                                    Coalesce(toolInput.orbit_camera, overrides.orbit_camera, "T"),
                                    Coalesce(toolInput.state_data, overrides.state_data, "T")>>],
          timeout |-> COMMAND_TIMEOUT]
  ELSE IF toolName = "navigate_to"
    THEN [known |-> TRUE, action |-> toolName, params |-> NoParams,
          timeout |-> COMMAND_TIMEOUT * 2]
  ELSE [known |-> TRUE, action |-> toolName, params |-> NoParams,
        timeout |-> COMMAND_TIMEOUT]

\* the default case of the switch: { error: `Unknown tool: ${toolName}` }
UnknownTool(toolName) == ErrorValue("Unknown tool: " \o toolName)

\* executeTool up to its call of sendCommand: the action, params and timeout
\* it passes, or known = FALSE for the default case
ToolCall(toolName, toolInput, overrides) ==
  IF toolName = "observe_scene"
    THEN [known |-> TRUE, action |-> "observe_scene",
          params |-> [sources |-> <<Coalesce(toolInput.head_camera, overrides.head_camera, "T"),
                                    Coalesce(toolInput.orbit_camera, overrides.orbit_camera, "T"),
                                    Coalesce(toolInput.state_data, overrides.state_data, "T")>>],
          timeout |-> COMMAND_TIMEOUT]
  ELSE IF toolName = "navigate_to"
    THEN [known |-> TRUE, action |-> toolName, params |-> NoParams,
          timeout |-> COMMAND_TIMEOUT * 2]
  ELSE IF toolName \in PlainTools
    THEN [known |-> TRUE, action |-> toolName, params |-> NoParams,
          timeout |-> COMMAND_TIMEOUT]
  ELSE [known |-> FALSE, action |-> toolName, params |-> NoParams, timeout |-> 0]

\* a promise that is settled when it is made
Immediate(state, kind, result) ==
  [state |-> state, kind |-> kind, result |-> result, settles |-> 1, due |-> FALSE]

\* the value executeTool returns once the promise p it awaits inside its try
\* block has settled: the resolved value, or { error: err.message } from its catch
ToolValue(p) == IF p.state = "resolved" THEN p.result ELSE ErrorValue(p.kind)

\* (mutant) executeTool without its try/catch: a rejection of the awaited
\* promise rejects the promise of executeTool
ExecuteToolSettled_NoCatch(p) ==
  IF p.state = "resolved" THEN [state |-> "resolved", value |-> p.result]
  ELSE [state |-> "rejected", value |-> ErrorValue(p.kind)]

\* how the promise of executeTool settles once p has: it resolves, either way
ExecuteToolSettled(p) == [state |-> "resolved", value |-> ToolValue(p)]

\* a content block of a tool result; detail is what the block carries of the
\* raw result (the error message of an error text)
Block(type, text, detail) == [type |-> type, text |-> text, detail |-> detail]

\* the image blocks of a tool result: each image, followed by its caption
ImageBlocks(result) ==
  (IF result.head_camera_image
     THEN <<Block("image", "head_camera_image", ""),
            Block("text", "[Head camera view above]", "")>>
     ELSE <<>>)
  \o (IF result.orbit_camera_image
        THEN <<Block("image", "orbit_camera_image", ""),
               Block("text", "[Orbit camera view above]", "")>>
        ELSE <<>>)

\* Object.keys(dataResult).length > 0: a field is left once the image fields
\* are deleted (an error field that did not end the function is one of them)
HasDataFields(result) == result.data \/ result.hasError

\* (mutant) without the block that is added when nothing else was
BuildToolResultContent_NoDefault(result) ==
  IF result.error # ""
    THEN <<Block("text", "Error: ", result.error)>>
    ELSE ImageBlocks(result)
           \o (IF HasDataFields(result) THEN <<Block("text", "JSON", "")>> ELSE <<>>)

\* (mutant) the error text is added after the images instead of replacing them
BuildToolResultContent_ErrorLast(result) ==
  LET content ==
        ImageBlocks(result)
          \o (IF result.error # "" THEN <<Block("text", "Error: ", result.error)>>
              ELSE IF HasDataFields(result) THEN <<Block("text", "JSON", "")>>
              ELSE <<>>)
  IN IF content = <<>>
       THEN <<Block("text", "Command executed successfully.", "")>>
       ELSE content

\* _buildToolResultContent(toolName, result), for a result that is an object;
\* if (result.error) holds of a non-empty message
BuildToolResultContent(result) ==
  IF result.error # ""
    THEN <<Block("text", "Error: ", result.error)>>
    ELSE LET content ==
               ImageBlocks(result)
                 \o (IF HasDataFields(result) THEN <<Block("text", "JSON", "")>>
                                              ELSE <<>>)
         IN IF content = <<>>
              THEN <<Block("text", "Command executed successfully.", "")>>
              ELSE content

\* ================================================================ agent
\* an event written to the response of a request
Event(type, text) == [type |-> type, text |-> text]

\* a message of the conversation history
Msg(role, kind, content) == [role |-> role, kind |-> kind, content |-> content]

\* (mutant) only the first text block of a turn is added to finalText
TextsOf_FirstOnly(content) ==
  LET F[i \in 0..Len(content)] ==
        IF i = 0 THEN <<>>
        ELSE IF content[i].type = "text" /\ F[i - 1] = <<>>
          THEN Append(F[i - 1], content[i].text)
        ELSE F[i - 1]
  IN F[Len(content)]

\* text blocks and tool_use blocks of a turn, each in their order
TextsOf(content) ==
  LET F[i \in 0..Len(content)] ==
        IF i = 0 THEN <<>>
        ELSE IF content[i].type = "text" THEN Append(F[i - 1], content[i].text)
        ELSE F[i - 1]
  IN F[Len(content)]

ToolsOf(content) ==
  LET F[i \in 0..Len(content)] ==
        IF i = 0 THEN <<>>
        ELSE IF content[i].type = "tool_use" THEN Append(F[i - 1], content[i])
        ELSE F[i - 1]
  IN F[Len(content)]

\* the events onStream writes while the blocks of a turn are split
EventsOf(content) ==
  [i \in 1..Len(content) |->
     IF content[i].type = "text" THEN Event("text", <<content[i].text>>)
                                 ELSE Event("tool_call", <<content[i].name>>)]

\* The handlers below run from one await to the next. The values a handler has
\* computed so far travel in x: x.c the call's locals, x.st the events written to
\* its response, x.h the conversation history, x.ac this._abortController,
\* x.pr the promises still referenced, x.sa the stop commands attempted.
Ctx(r) == [c |-> calls[r], st |-> stream[r], h |-> conversationHistory,
           ac |-> abortController, pr |-> promises, sa |-> stopAttempts[r]]

\* the handler of r resumes with the value of the promise it awaited, which
\* nothing refers to any longer
Resumed(r) ==
  [Ctx(r) EXCEPT !.pr = IF calls[r].wait = UndefinedId THEN promises
                        ELSE Without(promises, calls[r].wait),
                 !.c.wait = UndefinedId, !.c.imm = NewPromise]

\* the handler suspends (or ends) without having called the relay
Suspend(r, x) ==
  /\ calls' = [calls EXCEPT ![r] = x.c]
  /\ stream' = [stream EXCEPT ![r] = x.st]
  /\ conversationHistory' = x.h
  /\ abortController' = x.ac
  /\ promises' = x.pr
  /\ stopAttempts' = [stopAttempts EXCEPT ![r] = x.sa]
  /\ lastOp' = Log("other", TRUE, UndefinedId, Undefined)
  /\ UNCHANGED <<readyState, simulationSocket, pendingCommands, commandIdCounter,
                 timers, frames>>
  /\ UNCHANGED simVars

\* the handler suspends on the promise of a sendCommand call it has just made
SuspendOnSend(r, x, pc, action, params, timeout) ==
  /\ SendOn(x.pr, action, params, timeout)
  /\ calls' = [calls EXCEPT ![r] =
       [x.c EXCEPT !.pc = pc,
                   !.wait = IF IsOpen(simulationSocket) THEN FreshId ELSE UndefinedId,
                   !.imm = IF IsOpen(simulationSocket) THEN NewPromise
                           ELSE Immediate("rejected", "NotConnected", Undefined)]]
  /\ stream' = [stream EXCEPT ![r] = x.st]
  /\ conversationHistory' = x.h
  /\ abortController' = x.ac
  /\ stopAttempts' = [stopAttempts EXCEPT ![r] = x.sa]
  /\ UNCHANGED simVars

\* the locals of a call that has ended are gone
Ended(pc) == [NoCall EXCEPT !.pc = pc]

\* (mutant) processMessage returns without its finally block: the controller
\* keeps the token of the call that has ended
ReturnDone_KeepsToken(r, x) ==
  Suspend(r, [x EXCEPT !.c = Ended("done"),
                       !.st = Append(@, Event("done", x.c.finalText))])

\* processMessage returns finalText (finally: the controller drops its token)
\* and the /api/chat handler writes the done event
ReturnDone(r, x) ==
  Suspend(r, [x EXCEPT !.c = Ended("done"),
                       !.st = Append(@, Event("done", x.c.finalText)),
                       !.ac = NoToken])

\* (mutant) an error leaves processMessage without its finally block
ThrowError_KeepsToken(r, x, message) ==
  Suspend(r, [x EXCEPT !.c = Ended("error"),
                       !.st = Append(@, Event("error", <<message>>))])

\* processMessage throws an error that is not an AbortError (finally as above)
\* and the /api/chat handler writes the error event
ThrowError(r, x, message) ==
  Suspend(r, [x EXCEPT !.c = Ended("error"),
                       !.st = Append(@, Event("error", <<message>>)),
                       !.ac = NoToken])

\* a cancellation checkpoint has thrown: the catch block sends the stop command
\* and awaits it
ThrowAbort(r, x) ==
  SuspendOnSend(r, [x EXCEPT !.sa = @ + 1], "awaitStop", "stop_motors", NoParams,
                STOP_TIMEOUT)

\* the request for the next model turn is made and awaited
RequestTurn(r, x) ==
  Suspend(r, [x EXCEPT !.c.pc = "awaitModel",
                       !.st = Append(@, Event("status", <<"Thinking...">>))])

\* (mutant) the loop condition lets one more iteration through
EnterLoop_OneMore(r, x) ==
  LET y == [x EXCEPT !.c.maxIterations = @ - 1] IN
  IF x.c.maxIterations >= 0
    THEN IF aborted[r] THEN ThrowAbort(r, y) ELSE RequestTurn(r, y)
    ELSE ReturnDone(r, y)

\* (mutant) running out of iterations is an error
EnterLoop_ThrowsAtCap(r, x) ==
  LET y == [x EXCEPT !.c.maxIterations = @ - 1] IN
  IF x.c.maxIterations > 0
    THEN IF aborted[r] THEN ThrowAbort(r, y) ELSE RequestTurn(r, y)
    ELSE ThrowError(r, y, "iterations")

\* while (maxIterations-- > 0) and the first statements of the loop body
EnterLoop(r, x) ==
  LET y == [x EXCEPT !.c.maxIterations = @ - 1] IN
  IF x.c.maxIterations > 0
    THEN IF aborted[r] THEN ThrowAbort(r, y) ELSE RequestTurn(r, y)
    ELSE ReturnDone(r, y)

\* one iteration of the loop over toolUseBlocks, up to its await of executeTool
StartTool(r, x) ==
  LET toolBlock == x.c.toolUseBlocks[x.c.k]
      call == ToolCall(toolBlock.name, toolBlock.input, dataSourceOverrides)
      y == [x EXCEPT !.st = Append(@, Event("status", <<"Executing", toolBlock.name>>))]
  IN IF aborted[r] THEN ThrowAbort(r, x)
     ELSE IF call.known
       THEN SuspendOnSend(r, y, "awaitTool", call.action, call.params, call.timeout)
       ELSE Suspend(r, [y EXCEPT !.c.pc = "awaitTool", !.c.wait = UndefinedId,
                                 !.c.imm = Immediate("resolved", "result",
                                                     UnknownTool(toolBlock.name))])

\* setDataSources: a field that is given replaces the session default
SetDataSources(old, new) ==
  [f \in DOMAIN old |-> IF new[f] # "U" THEN new[f] ELSE old[f]]

\* the bodies a /api/chat request can carry: message is a non-empty string or
\* not, dataSources is absent or an object
ChatBodies ==
  [message : {TRUE, FALSE}, hasDataSources : {FALSE}, dataSources : {NoSources}]
    \cup {[message |-> TRUE, hasDataSources |-> TRUE,
           dataSources |-> [NoSources EXCEPT !.head_camera = "F"]]}

\* (mutant) the data source toggles are applied before the connection check
Chat_SourcesFirst(r, body) ==
  /\ calls[r].pc = "idle"
  /\ \A q \in Reqs : q < r => calls[q].pc # "idle"
  /\ UNCHANGED <<aborted, toolTurns>>
  /\ IF ~body.message
       THEN /\ Suspend(r, [Ctx(r) EXCEPT !.c.pc = "refused400"])
            /\ UNCHANGED dataSourceOverrides
     ELSE /\ dataSourceOverrides' =
               IF body.hasDataSources
                 THEN SetDataSources(dataSourceOverrides, body.dataSources)
                 ELSE dataSourceOverrides
          /\ IF ~IsOpen(simulationSocket)
               THEN Suspend(r, [Ctx(r) EXCEPT !.c.pc = "refused503"])
               ELSE EnterLoop(r, [Ctx(r) EXCEPT
                      !.h = Append(@, Msg("user", "text", <<"message">>)),
                      !.ac = r,
                      !.c.maxIterations = MaxIterations])

\* app.post('/api/chat') up to the first await inside processMessage
Chat(r, body) ==
  /\ calls[r].pc = "idle"
  /\ \A q \in Reqs : q < r => calls[q].pc # "idle"
  /\ UNCHANGED <<aborted, toolTurns>>
  /\ IF ~body.message
       THEN /\ Suspend(r, [Ctx(r) EXCEPT !.c.pc = "refused400"])
            /\ UNCHANGED dataSourceOverrides
     ELSE IF ~IsOpen(simulationSocket)
       THEN /\ Suspend(r, [Ctx(r) EXCEPT !.c.pc = "refused503"])
            /\ UNCHANGED dataSourceOverrides
     ELSE /\ dataSourceOverrides' =
               IF body.hasDataSources
                 THEN SetDataSources(dataSourceOverrides, body.dataSources)
                 ELSE dataSourceOverrides
          /\ EnterLoop(r, [Ctx(r) EXCEPT
               !.h = Append(@, Msg("user", "text", <<"message">>)),
               !.ac = r,
               !.c.maxIterations = MaxIterations])

\* (mutant) processMessage does not look at the signal when the model request
\* returns
ModelTurn_NoCheckpoint(r, turn) ==
  /\ calls[r].pc = "awaitModel"
  /\ LET toolUseBlocks == ToolsOf(turn.content)
         x == [Ctx(r) EXCEPT
                 !.h = Append(@, Msg("assistant", "turn", turn.content)),
                 !.st = @ \o EventsOf(turn.content),
                 !.c.finalText = @ \o TextsOf(turn.content),
                 !.c.toolUseBlocks = toolUseBlocks,
                 !.c.toolResults = <<>>,
                 !.c.k = 1]
     IN IF toolUseBlocks = <<>> \/ turn.stop_reason = "end_turn"
          THEN ReturnDone(r, x)
        ELSE StartTool(r, x)
  /\ UNCHANGED <<dataSourceOverrides, aborted>>

\* (mutant) the loop is left only when the model signals end_turn
ModelTurn_BreakOnEndTurn(r, turn) ==
  /\ calls[r].pc = "awaitModel"
  /\ LET toolUseBlocks == ToolsOf(turn.content)
         x == [Ctx(r) EXCEPT
                 !.h = Append(@, Msg("assistant", "turn", turn.content)),
                 !.st = @ \o EventsOf(turn.content),
                 !.c.finalText = @ \o TextsOf(turn.content),
                 !.c.toolUseBlocks = toolUseBlocks,
                 !.c.toolResults = <<>>,
                 !.c.k = 1]
     IN IF aborted[r] THEN ThrowAbort(r, Ctx(r))
        ELSE IF turn.stop_reason = "end_turn" THEN ReturnDone(r, x)
        ELSE IF toolUseBlocks = <<>>
          THEN EnterLoop(r, [x EXCEPT !.h = Append(@, Msg("user", "tool_results", <<>>))])
        ELSE StartTool(r, x)
  /\ UNCHANGED <<dataSourceOverrides, aborted>>

\* (mutant) the loop is left only when the turn holds no tool invocation
ModelTurn_IgnoresStopReason(r, turn) ==
  /\ calls[r].pc = "awaitModel"
  /\ LET toolUseBlocks == ToolsOf(turn.content)
         x == [Ctx(r) EXCEPT
                 !.h = Append(@, Msg("assistant", "turn", turn.content)),
                 !.st = @ \o EventsOf(turn.content),
                 !.c.finalText = @ \o TextsOf(turn.content),
                 !.c.toolUseBlocks = toolUseBlocks,
                 !.c.toolResults = <<>>,
                 !.c.k = 1]
     IN IF aborted[r] THEN ThrowAbort(r, Ctx(r))
        ELSE IF toolUseBlocks = <<>> THEN ReturnDone(r, x)
        ELSE StartTool(r, x)
  /\ UNCHANGED <<dataSourceOverrides, aborted>>

\* (mutant) only the text blocks of the turn are pushed to the conversation
ModelTurn_StoresTextOnly(r, turn) ==
  /\ calls[r].pc = "awaitModel"
  /\ LET toolUseBlocks == ToolsOf(turn.content)
         IsText(block) == block.type = "text"
         x == [Ctx(r) EXCEPT
                 !.h = Append(@, Msg("assistant", "turn", SelectSeq(turn.content, IsText))),
                 !.st = @ \o EventsOf(turn.content),
                 !.c.finalText = @ \o TextsOf(turn.content),
                 !.c.toolUseBlocks = toolUseBlocks,
                 !.c.toolResults = <<>>,
                 !.c.k = 1]
     IN IF aborted[r] THEN ThrowAbort(r, Ctx(r))
        ELSE IF toolUseBlocks = <<>> \/ turn.stop_reason = "end_turn"
          THEN ReturnDone(r, x)
        ELSE StartTool(r, x)
  /\ UNCHANGED <<dataSourceOverrides, aborted>>

\* the model request of r returns a turn: processMessage runs on to its next await
ModelTurn(r, turn) ==
  /\ calls[r].pc = "awaitModel"
  /\ LET toolUseBlocks == ToolsOf(turn.content)
         x == [Ctx(r) EXCEPT
                 !.h = Append(@, Msg("assistant", "turn", turn.content)),
                 !.st = @ \o EventsOf(turn.content),
                 !.c.finalText = @ \o TextsOf(turn.content),
                 !.c.toolUseBlocks = toolUseBlocks,
                 !.c.toolResults = <<>>,
                 !.c.k = 1]
     IN IF aborted[r] THEN ThrowAbort(r, Ctx(r))
        ELSE IF toolUseBlocks = <<>> \/ turn.stop_reason = "end_turn"
          THEN ReturnDone(r, x)
        ELSE StartTool(r, x)
  /\ UNCHANGED <<dataSourceOverrides, aborted>>

\* does this turn make processMessage run tools?
RunsTools(turn) == ToolsOf(turn.content) # <<>> /\ turn.stop_reason # "end_turn"

\* the model returns a turn, within the budget of tool turns of the run
ModelReturns(r, turn) ==
  /\ RunsTools(turn) => toolTurns < MaxToolTurns
  /\ toolTurns' = IF RunsTools(turn) THEN toolTurns + 1 ELSE toolTurns
  /\ ModelTurn(r, turn)

\* the model request of r fails: client.messages.create rejects
ModelFails(r) ==
  /\ calls[r].pc = "awaitModel"
  /\ ThrowError(r, Ctx(r), "api")
  /\ UNCHANGED <<dataSourceOverrides, aborted, toolTurns>>

\* (mutant) the call is resumed although the promise it awaits is unsettled
Ready_Always(c) == TRUE

\* is the promise the call awaits settled?
Ready(c) == IF c.wait = UndefinedId THEN TRUE ELSE promises[c.wait].state # "pending"

\* the promise executeTool (or the catch block of processMessage) awaits: the
\* one of the command it sent, or the one that was settled from the start
AwaitedPromise(c) == IF c.wait = UndefinedId THEN c.imm ELSE promises[c.wait]

\* the value the await of executeTool yields
Awaited(c) == ExecuteToolSettled(AwaitedPromise(c)).value

\* (mutant) a result with an error field is thrown instead of being built
\* into a tool result
ToolReturns_ThrowsOnError(r) ==
  /\ calls[r].pc = "awaitTool"
  /\ Ready(calls[r])
  /\ LET c == calls[r]
         result == Awaited(c)
         toolResults == Append(c.toolResults,
                          [type |-> "tool_result",
                           tool_use_id |-> c.toolUseBlocks[c.k].id,
                           content |-> BuildToolResultContent(result)])
         x == [Resumed(r) EXCEPT !.c.toolResults = toolResults, !.c.k = @ + 1]
     IN IF ExecuteToolSettled(AwaitedPromise(c)).state = "rejected"
          THEN ThrowError(r, Resumed(r), result.error)
        ELSE IF aborted[r] THEN ThrowAbort(r, Resumed(r))
        ELSE IF ~result.defined THEN ThrowError(r, Resumed(r), "TypeError")
        ELSE IF result.error # "" THEN ThrowError(r, Resumed(r), result.error)
        ELSE IF c.k < Len(c.toolUseBlocks) THEN StartTool(r, x)
        ELSE EnterLoop(r, [x EXCEPT !.h = Append(@, Msg("user", "tool_results", toolResults))])
  /\ UNCHANGED <<dataSourceOverrides, aborted, toolTurns>>

\* (mutant) each tool result is pushed to the conversation as a message of
\* its own, as soon as it is built
ToolReturns_PushesEach(r) ==
  /\ calls[r].pc = "awaitTool"
  /\ Ready(calls[r])
  /\ LET c == calls[r]
         result == Awaited(c)
         toolResult == [type |-> "tool_result",
                        tool_use_id |-> c.toolUseBlocks[c.k].id,
                        content |-> BuildToolResultContent(result)]
         x == [Resumed(r) EXCEPT !.c.toolResults = Append(c.toolResults, toolResult),
                                 !.c.k = @ + 1,
                                 !.h = Append(@, Msg("user", "tool_results", <<toolResult>>))]
     IN IF ExecuteToolSettled(AwaitedPromise(c)).state = "rejected"
          THEN ThrowError(r, Resumed(r), result.error)
        ELSE IF aborted[r] THEN ThrowAbort(r, Resumed(r))
        ELSE IF ~result.defined THEN ThrowError(r, Resumed(r), "TypeError")
        ELSE IF c.k < Len(c.toolUseBlocks) THEN StartTool(r, x)
        ELSE EnterLoop(r, x)
  /\ UNCHANGED <<dataSourceOverrides, aborted, toolTurns>>

\* executeTool has returned: the rest of the loop iteration, and what follows
ToolReturns(r) ==
  /\ calls[r].pc = "awaitTool"
  /\ Ready(calls[r])
  /\ LET c == calls[r]
         result == Awaited(c)
         toolResults == Append(c.toolResults,
                          [type |-> "tool_result",
                           tool_use_id |-> c.toolUseBlocks[c.k].id,
                           content |-> BuildToolResultContent(result)])
         x == [Resumed(r) EXCEPT !.c.toolResults = toolResults, !.c.k = @ + 1]
     IN IF ExecuteToolSettled(AwaitedPromise(c)).state = "rejected"
          THEN ThrowError(r, Resumed(r), result.error)
        ELSE IF aborted[r] THEN ThrowAbort(r, Resumed(r))
        ELSE IF ~result.defined THEN ThrowError(r, Resumed(r), "TypeError")
        ELSE IF c.k < Len(c.toolUseBlocks) THEN StartTool(r, x)
        ELSE EnterLoop(r, [x EXCEPT !.h = Append(@, Msg("user", "tool_results", toolResults))])
  /\ UNCHANGED <<dataSourceOverrides, aborted, toolTurns>>

\* (mutant) processMessage streams the aborted event itself before it throws
\* the AbortError on to the handler, which writes it again
StopReturns_Twice(r) ==
  /\ calls[r].pc = "awaitStop"
  /\ Ready(calls[r])
  /\ Suspend(r, [Resumed(r) EXCEPT !.c = Ended("aborted"),
                               !.st = @ \o <<Event("aborted", <<"Interrupted by user">>),
                                             Event("aborted", <<"Interrupted by user">>)>>,
                               !.ac = NoToken])
  /\ UNCHANGED <<dataSourceOverrides, aborted, toolTurns>>

\* (mutant) the catch block does not swallow the failure of the stop command:
\* its rejection replaces the AbortError
StopReturns_ThrowsOnFailure(r) ==
  /\ calls[r].pc = "awaitStop"
  /\ Ready(calls[r])
  /\ IF AwaitedPromise(calls[r]).state = "rejected"
       THEN ThrowError(r, Resumed(r), AwaitedPromise(calls[r]).kind)
       ELSE Suspend(r, [Resumed(r) EXCEPT
                          !.c = Ended("aborted"),
                          !.st = Append(@, Event("aborted", <<"Interrupted by user">>)),
                          !.ac = NoToken])
  /\ UNCHANGED <<dataSourceOverrides, aborted, toolTurns>>

\* the stop command has settled, either way: the AbortError is thrown on
\* (finally: the controller drops its token) and the handler writes aborted
StopReturns(r) ==
  /\ calls[r].pc = "awaitStop"
  /\ Ready(calls[r])
  /\ Suspend(r, [Resumed(r) EXCEPT !.c = Ended("aborted"),
                               !.st = Append(@, Event("aborted", <<"Interrupted by user">>)),
                               !.ac = NoToken])
  /\ UNCHANGED <<dataSourceOverrides, aborted, toolTurns>>

\* (mutant) abort() itself sends a stop command when it flags the token
Abort_SendsStop ==
  /\ aborted' = IF abortController # NoToken
                  THEN [aborted EXCEPT ![abortController] = TRUE]
                  ELSE aborted
  /\ IF abortController # NoToken /\ ~aborted[abortController]
       THEN /\ SendOn(promises, "stop_motors", NoParams, STOP_TIMEOUT)
            /\ stopAttempts' = [stopAttempts EXCEPT ![abortController] = @ + 1]
       ELSE /\ lastOp' = Log("other", TRUE, UndefinedId, Undefined)
            /\ UNCHANGED stopAttempts
            /\ UNCHANGED relayVars
  /\ UNCHANGED <<conversationHistory, dataSourceOverrides, abortController, calls,
                 stream, toolTurns>>
  /\ UNCHANGED simVars

\* (mutant) abort() is preemptive: it rejects the commands that are pending
\* and cancels their timers
Abort_Preempts ==
  /\ aborted' = IF abortController # NoToken
                  THEN [aborted EXCEPT ![abortController] = TRUE]
                  ELSE aborted
  /\ promises' = RejectAll(pendingCommands, timers, promises)
  /\ timers' = ClearAll(pendingCommands, timers)
  /\ pendingCommands' = EmptyMap
  /\ lastOp' = Log("other", TRUE, UndefinedId, Undefined)
  /\ UNCHANGED <<conversationHistory, dataSourceOverrides, abortController, calls,
                 stream, toolTurns, stopAttempts>>
  /\ UNCHANGED simVars
  /\ UNCHANGED <<readyState, simulationSocket, commandIdCounter, frames>>

\* app.post('/api/chat/abort') -> AIController.abort()
Abort ==
  /\ aborted' = IF abortController # NoToken
                  THEN [aborted EXCEPT ![abortController] = TRUE]
                  ELSE aborted
  /\ lastOp' = Log("other", TRUE, UndefinedId, Undefined)
  /\ UNCHANGED <<conversationHistory, dataSourceOverrides, abortController, calls,
                 stream, toolTurns, stopAttempts>>
  /\ UNCHANGED simVars
  /\ UNCHANGED relayVars

\* app.post('/api/chat/clear') -> AIController.clearHistory()
ClearHistory ==
  /\ conversationHistory' = <<>>
  /\ lastOp' = Log("other", TRUE, UndefinedId, Undefined)
  /\ UNCHANGED <<dataSourceOverrides, abortController, aborted, calls, stream, toolTurns,
                 stopAttempts>>
  /\ UNCHANGED relayVars
  /\ UNCHANGED simVars

\* no call of processMessage is suspended at an await
Quiescent ==
  \A r \in Reqs : calls[r].pc \notin {"awaitModel", "awaitTool", "awaitStop"}

\* the server as a whole; the simulation connects once
Init ==
  /\ InitState
  /\ lastOp = Op("off", TRUE, UndefinedId, Undefined)

\* the relay's events when the simulation connects once
AgentRelayEvent ==
  \/ Connection(1)
  \/ BeginClose(1)
  \/ Close(1)
  \/ \E msg \in InFrames : Message(1, msg)
  \/ \E id \in DOMAIN timers : TimerFire(id)
  \/ \E id \in DOMAIN timers : Expire(id)

Next ==
  \/ AgentRelayEvent /\ UNCHANGED <<agentVars, simVars>>
  \/ \E r \in Reqs, body \in ChatBodies : Chat(r, body)
  \/ \E r \in Reqs, turn \in Turns : ModelReturns(r, turn)
  \/ \E r \in Reqs : ModelFails(r)
  \/ \E r \in Reqs : ToolReturns(r)
  \/ \E r \in Reqs : StopReturns(r)
  \/ Abort
  \/ Quiescent /\ ClearHistory

\* The server with its clients: chat requests, cancellations, and clears that
\* arrive between calls of processMessage.
Spec == Init /\ [][Next]_vars

\* the ids the commands of the agent's calls can get: one per tool turn and
\* one stop command per request
AgentIds == 0..(MaxToolTurns + MaxReqs)

\* the bodies that carry no dataSources
PlainBodies == {body \in ChatBodies : ~body.hasDataSources}

\* One call of processMessage with the relay under it: a chat request that
\* leaves the session defaults alone, the turns and failures of the model, a
\* simulation that may answer, stay silent or disconnect, and cancellations.
NextCall ==
  \/ AgentRelayEvent /\ UNCHANGED <<agentVars, simVars>>
  \/ \E body \in PlainBodies : Chat(1, body)
  \/ \E turn \in CallTurns : ModelReturns(1, turn)
  \/ ModelFails(1)
  \/ ToolReturns(1)
  \/ StopReturns(1)
  \/ Abort

SpecCall == Init /\ [][NextCall]_vars

\* SpecCall with its scheduling: every model request returns or fails, a call
\* whose awaited promise has settled is resumed, every delay elapses and the
\* event loop runs every due timer callback
FairSpecCall ==
  /\ SpecCall
  /\ WF_vars((\E turn \in CallTurns : ModelReturns(1, turn)) \/ ModelFails(1))
  /\ WF_vars(ToolReturns(1))
  /\ WF_vars(StopReturns(1))
  /\ \A id \in AgentIds :
       /\ WF_vars(Expire(id) /\ UNCHANGED <<agentVars, simVars>>)
       /\ WF_vars(TimerFire(id) /\ UNCHANGED <<agentVars, simVars>>)

\* a turn with three tool invocations: two tools of the catalog around a name
\* that is not in it
TurnSeq ==
  [content |-> <<ToolUse("tu1", "move_base", NoSources), ToolUse("tu2", "fly", NoSources),
                 ToolUse("tu3", "navigate_to", NoSources)>>,
   stop_reason |-> "tool_use"]

\* One call whose tool turns hold three invocations each, over a simulation
\* that may answer, stay silent or disconnect; the call can be cancelled.
NextTools ==
  \/ AgentRelayEvent /\ UNCHANGED <<agentVars, simVars>>
  \/ \E body \in PlainBodies : Chat(1, body)
  \/ \E turn \in {TurnSeq, TurnText} : ModelReturns(1, turn)
  \/ ToolReturns(1)
  \/ StopReturns(1)
  \/ Abort

SpecTools == Init /\ [][NextTools]_vars

\* the result of a command that succeeded: an object with data fields
DataResult == Value(TRUE, "", FALSE, FALSE, TRUE)

\* One call whose model returns tool invocations in every turn, with a
\* simulation that is connected and answers every command; the call can be
\* cancelled and a model request can fail.
NextCap ==
  \/ Connection(1) /\ UNCHANGED <<agentVars, simVars>>
  \/ \E id \in DOMAIN pendingCommands :
       /\ Message(1, [type |-> "command_result", id |-> id, result |-> DataResult])
       /\ UNCHANGED <<agentVars, simVars>>
  \/ \E body \in PlainBodies : Chat(1, body)
  \/ ModelTurn(1, TurnTools) /\ UNCHANGED toolTurns
  \/ ModelFails(1)
  \/ ToolReturns(1)
  \/ StopReturns(1)
  \/ Abort

SpecCap == Init /\ [][NextCap]_vars

FairSpecCap ==
  /\ SpecCap
  /\ WF_vars(\E id \in DOMAIN pendingCommands :
               /\ Message(1, [type |-> "command_result", id |-> id, result |-> DataResult])
               /\ UNCHANGED <<agentVars, simVars>>)
  /\ WF_vars((ModelTurn(1, TurnTools) /\ UNCHANGED toolTurns) \/ ModelFails(1))
  /\ WF_vars(ToolReturns(1))
  /\ WF_vars(StopReturns(1))

\* what a source toggle can be: true, false, or absent
Toggles == {"T", "F", "U"}

\* every sources object: of an observe_scene input, or of a /api/chat body
SourceSets == [head_camera : Toggles, orbit_camera : Toggles, state_data : Toggles]

\* the bodies of a chat request with a message: without dataSources, or with
\* any dataSources object
SourceBodies ==
  {[message |-> TRUE, hasDataSources |-> FALSE, dataSources |-> NoSources]}
    \cup [message : {TRUE}, hasDataSources : {TRUE}, dataSources : SourceSets]

\* a turn that asks for one observation with the given sources
TurnObserve(input) ==
  [content |-> <<ToolUse("tu1", "observe_scene", input)>>, stop_reason |-> "tool_use"]

\* One call whose model asks for observations with any explicit sources, after
\* a chat request that set any session defaults; the simulation is connected
\* and answers every command.
NextSources ==
  \/ Connection(1) /\ UNCHANGED <<agentVars, simVars>>
  \/ \E id \in DOMAIN pendingCommands :
       /\ Message(1, [type |-> "command_result", id |-> id, result |-> DataResult])
       /\ UNCHANGED <<agentVars, simVars>>
  \/ \E body \in SourceBodies : Chat(1, body)
  \/ \E input \in SourceSets : ModelReturns(1, TurnObserve(input))
  \/ ModelReturns(1, TurnText)
  \/ ToolReturns(1)

SpecSources == Init /\ [][NextSources]_vars

\* the results a simulation can answer a command with: objects without an
\* error field (any image fields, with or without data fields), objects with
\* an error message (one of them with both images and data besides), objects
\* whose error field is empty, and a frame without a result
RawResults ==
  {Value(TRUE, "", head, orbit, data) : head \in BOOLEAN, orbit \in BOOLEAN, data \in BOOLEAN}
    \cup {ErrorValue("failed"), Value(TRUE, "blurred", TRUE, TRUE, TRUE)}
    \cup {EmptyErrorValue(head, FALSE, FALSE) : head \in BOOLEAN}
    \cup {Undefined}

\* a turn with two invocations of catalog tools
TurnPair ==
  [content |-> <<ToolUse("tu1", "observe_scene", NoSources),
                 ToolUse("tu2", "get_robot_state", NoSources)>>,
   stop_reason |-> "tool_use"]

\* One call over a simulation that answers with any of these results, stays
\* silent or disconnects.
NextResults ==
  \/ Connection(1) /\ UNCHANGED <<agentVars, simVars>>
  \/ Close(1) /\ UNCHANGED <<agentVars, simVars>>
  \/ \E id \in DOMAIN timers : Expire(id) /\ UNCHANGED <<agentVars, simVars>>
  \/ \E id \in DOMAIN timers : TimerFire(id) /\ UNCHANGED <<agentVars, simVars>>
  \/ \E id \in DOMAIN pendingCommands, result \in RawResults :
       /\ Message(1, [type |-> "command_result", id |-> id, result |-> result])
       /\ UNCHANGED <<agentVars, simVars>>
  \/ \E body \in PlainBodies : Chat(1, body)
  \/ \E turn \in {TurnPair, TurnText} : ModelReturns(1, turn)
  \/ ToolReturns(1)

SpecResults == Init /\ [][NextResults]_vars

\* Chat requests that arrive whenever their clients send them, also while the
\* call of an earlier request is suspended; the simulation is connected and
\* answers every command, and calls can be cancelled.
NextOverlap ==
  \/ Connection(1) /\ UNCHANGED <<agentVars, simVars>>
  \/ \E id \in DOMAIN pendingCommands :
       /\ Message(1, [type |-> "command_result", id |-> id, result |-> DataResult])
       /\ UNCHANGED <<agentVars, simVars>>
  \/ \E r \in OverlapReqs, body \in PlainBodies : Chat(r, body)
  \/ \E r \in OverlapReqs, turn \in {TurnText, TurnTools} : ModelReturns(r, turn)
  \/ \E r \in OverlapReqs : ToolReturns(r)
  \/ \E r \in OverlapReqs : StopReturns(r)
  \/ Abort

SpecOverlap == Init /\ [][NextOverlap]_vars

\* no call of any request is suspended at an await
AllQuiescent ==
  \A r \in OverlapReqs : calls[r].pc \notin {"awaitModel", "awaitTool", "awaitStop"}

\* Chat requests made one after another: a request arrives only when the
\* call of the one before has ended. Model requests can fail, the simulation
\* answers every command, and abort() can be called at any time.
NextSerial ==
  \/ Connection(1) /\ UNCHANGED <<agentVars, simVars>>
  \/ \E id \in DOMAIN pendingCommands :
       /\ Message(1, [type |-> "command_result", id |-> id, result |-> DataResult])
       /\ UNCHANGED <<agentVars, simVars>>
  \/ \E r \in OverlapReqs, body \in PlainBodies : AllQuiescent /\ Chat(r, body)
  \/ \E r \in OverlapReqs, turn \in {TurnText, TurnTools} : ModelReturns(r, turn)
  \/ \E r \in OverlapReqs : ModelFails(r)
  \/ \E r \in OverlapReqs : ToolReturns(r)
  \/ \E r \in OverlapReqs : StopReturns(r)
  \/ Abort

SpecSerial == Init /\ [][NextSerial]_vars

\* the bodies of a chat request: with or without a message, with or without
\* dataSources that switch the head camera off
GateBodies ==
  [message : BOOLEAN, hasDataSources : {FALSE}, dataSources : {NoSources}]
    \cup [message : BOOLEAN, hasDataSources : {TRUE},
          dataSources : {[NoSources EXCEPT !.head_camera = "F"]}]

\* Chat requests with any body that arrive at any time, before the
\* simulation has connected, while it is connected and answers, and after
\* it has disconnected.
NextGate ==
  \/ Connection(1) /\ UNCHANGED <<agentVars, simVars>>
  \/ Close(1) /\ UNCHANGED <<agentVars, simVars>>
  \/ \E id \in DOMAIN pendingCommands :
       /\ Message(1, [type |-> "command_result", id |-> id, result |-> DataResult])
       /\ UNCHANGED <<agentVars, simVars>>
  \/ \E r \in OverlapReqs, body \in GateBodies : Chat(r, body)
  \/ \E r \in OverlapReqs, turn \in {TurnText, TurnTools} : ModelReturns(r, turn)
  \/ \E r \in OverlapReqs : ToolReturns(r)

SpecGate == Init /\ [][NextGate]_vars

\* ------------------------------------------------- SimulationAPI._moveBase
LINEAR_LIMIT == 15000     \* elapsed > 15000
TURN_LIMIT == 10000       \* elapsed > 10000
checkInterval == 50
MOTOR_FORWARD == -1
MOTOR_BACKWARD == 1
MOTOR_TURN_LEFT == 1
MOTOR_TURN_RIGHT == -1

\* Math.PI in the model's unit of angle, a quarter turn
HalfTurn == 2
\* the farthest the base gets from where it started before something stops
\* it, in the model's unit of length
Reach == 2

Directions == {"forward", "backward", "turn_left", "turn_right"}

\* the params of the move_base commands of a run: the four directions of the
\* tool's schema and one outside it, an amount within reach and one beyond
MoveInputs == [direction : Directions \cup {"sideways"}, amount : {1, 3}]

Abs(a) == IF a < 0 THEN -a ELSE a

\* while (angleMoved > Math.PI) angleMoved -= 2 * Math.PI;
\* while (angleMoved < -Math.PI) angleMoved += 2 * Math.PI;
RECURSIVE Normalize(_)
Normalize(a) ==
  IF a > HalfTurn THEN Normalize(a - 2 * HalfTurn)
  ELSE IF a < -HalfTurn THEN Normalize(a + 2 * HalfTurn)
  ELSE a

\* the distance between the base and where it started
Dist(m) == m.travelled

\* currentYaw - startYaw: the base has turned by m.travelled, to the left
\* (positive) or to the right
AngleMoved(m) ==
  Normalize(IF m.direction = "turn_left" THEN m.travelled ELSE -m.travelled)

\* elapsed += checkInterval; beyond both time limits by more than one
\* interval a larger value reads the same, and the count stops there
Tick(elapsed) ==
  IF elapsed + checkInterval > LINEAR_LIMIT + 2 * checkInterval
    THEN LINEAR_LIMIT + 2 * checkInterval
    ELSE elapsed + checkInterval

\* const step = () => {...}: one run of the closure; unless it resolves it
\* adds to elapsed and arms the timeout of its next run
step(m) ==
  IF m.direction \in {"forward", "backward"}
    THEN IF Dist(m) >= m.amount \/ m.elapsed > LINEAR_LIMIT
           THEN [m EXCEPT !.ctrl[1] = 0,
                          !.state = "resolved",
                          !.result = MoveResult(10 * Dist(m) >= 7 * m.amount, Dist(m))]
           ELSE [m EXCEPT !.ctrl[1] = IF m.direction = "forward"
                                        THEN MOTOR_FORWARD ELSE MOTOR_BACKWARD,
                          !.elapsed = Tick(@)]
  ELSE IF m.direction \in {"turn_left", "turn_right"}
    THEN IF Abs(AngleMoved(m)) >= m.amount \/ m.elapsed > TURN_LIMIT
           THEN [m EXCEPT !.ctrl[2] = 0,
                          !.state = "resolved",
                          !.result = MoveResult(10 * Abs(AngleMoved(m)) >= 7 * m.amount,
                                                Abs(AngleMoved(m)))]
           ELSE [m EXCEPT !.ctrl[2] = IF m.direction = "turn_left"
                                        THEN MOTOR_TURN_LEFT ELSE MOTOR_TURN_RIGHT,
                          !.elapsed = Tick(@)]
  ELSE [m EXCEPT !.elapsed = Tick(@)]

\* _moveBase(params): the start pose is read, and step runs for the first time
MoveBase(params) ==
  /\ moveBase.state = "idle"
  /\ moveBase' = step([NoMove EXCEPT !.state = "stepping",
                                     !.direction = params.direction,
                                     !.amount = params.amount])
  /\ UNCHANGED <<relayVars, agentVars, lastOp, wsClient, browser, clientLog>>

\* setTimeout(step, checkInterval) fires
MoveStep ==
  /\ moveBase.state = "stepping"
  /\ moveBase' = step(moveBase)
  /\ UNCHANGED <<relayVars, agentVars, lastOp, wsClient, browser, clientLog>>

\* the physics between two runs of step: a motor that is on moves the base a
\* unit further, or turns it a unit further, or the base is held up
Physics ==
  /\ moveBase.state = "stepping"
  /\ \/ /\ moveBase.ctrl[1] # 0
        /\ moveBase.travelled < Reach
        /\ moveBase' = [moveBase EXCEPT !.travelled = @ + 1]
     \/ /\ moveBase.ctrl[2] # 0
        /\ moveBase' = [moveBase EXCEPT !.travelled = (@ + 1) % (2 * HalfTurn)]
  /\ UNCHANGED <<relayVars, agentVars, lastOp, wsClient, browser, clientLog>>

\* one move_base command, for every direction and amount of MoveInputs
NextMove ==
  \/ \E params \in MoveInputs : MoveBase(params)
  \/ MoveStep
  \/ Physics

SpecMove == Init /\ [][NextMove]_vars

\* ------------------------------------------------------- WebSocketClient
reconnectInterval == 3000

\* the client object with the page's sockets and timeouts it acts on
Client == [c |-> wsClient, b |-> browser, l |-> clientLog]

\* the handler has run to its end
Becomes(x) ==
  /\ wsClient' = x.c
  /\ browser' = x.b
  /\ clientLog' = x.l
  /\ UNCHANGED <<relayVars, agentVars, lastOp, moveBase>>

\* sockets that are closed, or were never made, give room for a new one
FreeSockets(b) == {s \in ClientSockets : b.readyState[s] \in {"NONE", "CLOSED"}}

\* new WebSocket(url) and the handle setTimeout returns
NewSocket(b) == CHOOSE s \in FreeSockets(b) : \A t \in FreeSockets(b) : s <= t
NewTimeout(b) ==
  CHOOSE t \in 1..(Cardinality(DOMAIN b.timeouts) + 1) :
    /\ t \notin DOMAIN b.timeouts
    /\ \A u \in 1..(t - 1) : u \in DOMAIN b.timeouts

\* clearTimeout(this.reconnectTimer); this.reconnectTimer = null, when set
ClearReconnect(x) ==
  IF x.c.reconnectTimer # NoTimer
    THEN [x EXCEPT !.b.timeouts = Without(@, x.c.reconnectTimer),
                   !.c.reconnectTimer = NoTimer]
    ELSE x

\* connect(): a new socket, with the client's handlers on it, replaces
\* this.ws; by: the caller, the page ("connect") or the reconnect timer
Connect(x, by) ==
  LET s == NewSocket(x.b)
  IN [x EXCEPT !.c.ws = s, !.b.readyState[s] = "CONNECTING", !.l.madeBy[s] = by]

\* (mutant) no reconnect is scheduled
ScheduleReconnect_Never(x) == x

\* _scheduleReconnect()
ScheduleReconnect(x) ==
  IF x.c.reconnectTimer # NoTimer
    THEN x
    ELSE LET t == NewTimeout(x.b)
         IN [x EXCEPT !.c.reconnectTimer = t,
                      !.b.timeouts = With(@, t, reconnectInterval)]

\* the page calls connect(); it does so when the client holds no socket
ClientConnect ==
  /\ wsClient.ws = NoSocket
  /\ FreeSockets(browser) # {}
  /\ Becomes(Connect([Client EXCEPT !.l.started = TRUE, !.l.disconnected = FALSE],
                     "connect"))

\* the connection of s is established: ws.onopen
SocketOpens(s) ==
  /\ browser.readyState[s] = "CONNECTING"
  /\ Becomes(ClearReconnect([Client EXCEPT !.b.readyState[s] = "OPEN",
                                           !.c.connected = TRUE]))

\* s is closed: the attempt failed, the server or the network dropped the
\* connection, or the closing handshake that close() started is over:
\* ws.onclose. The handlers it was running can no longer be answered on it.
SocketCloses(s) ==
  /\ browser.readyState[s] \in {"CONNECTING", "OPEN", "CLOSING"}
  /\ Becomes(ScheduleReconnect(
       [Client EXCEPT !.b.readyState[s] = "CLOSED",
                      !.b.jobs = [id \in DOMAIN @ |->
                                    IF @[id].sock = s THEN [@[id] EXCEPT !.cut = TRUE]
                                    ELSE @[id]],
                      !.c.connected = FALSE]))

\* the reconnect timeout fires
ReconnectTimer(t) ==
  /\ t \in DOMAIN browser.timeouts
  /\ wsClient.connected \/ FreeSockets(browser) # {}
  /\ LET x == [Client EXCEPT !.b.timeouts = Without(@, t),
                             !.c.reconnectTimer = NoTimer]
     IN Becomes(IF ~x.c.connected THEN Connect(x, "timer") ELSE x)

\* disconnect(); close() on a socket that is closing or closed does nothing
ClientDisconnect ==
  /\ clientLog.started
  /\ LET x == ClearReconnect([Client EXCEPT !.l.disconnected = TRUE,
                                            !.l.everDisconnected = TRUE])
         s == x.c.ws
     IN Becomes([x EXCEPT
          !.b.readyState = IF s # NoSocket /\ @[s] \in {"CONNECTING", "OPEN"}
                             THEN [@ EXCEPT ![s] = "CLOSING"] ELSE @,
          !.c.ws = NoSocket,
          !.c.connected = FALSE])

\* the params of a command frame; defined is FALSE for a frame without params
Params(defined, direction) == [defined |-> defined, direction |-> direction]

\* the result of a command: the error it reports, or its value
CommandResult(error, value) == [error |-> error, value |-> value]

\* the promise executeCommand returns: an unknown action resolves with an
\* error result, a handler that cannot destructure its params throws (the
\* promise is rejected), get_robot_state resolves at once and move_base
\* stays pending while its step closure runs
ExecuteCommand(action, params) ==
  IF action = "get_robot_state"
    THEN [state |-> "resolved", result |-> CommandResult("", "state")]
  ELSE IF action = "move_base"
    THEN IF params.defined
           THEN [state |-> "pending", result |-> CommandResult("", "")]
           ELSE [state |-> "rejected", result |-> CommandResult("TypeError", "")]
  ELSE [state |-> "resolved", result |-> CommandResult("Unknown action", "")]

\* the promise of a move_base call is resolved in the forward/backward
\* branch or the turn branch of step, at the latest when the time limit of
\* the branch has passed; step has no other branch that resolves it
Resolves(params) == params.direction \in Directions

\* this.ws.send(JSON.stringify({type: 'command_result', id, result})): with
\* no socket the call throws, as send() does on a socket that is still
\* connecting, and the outer catch logs it; a socket that is closing or
\* closed discards the frame
Reply(x, id, result) ==
  LET s == x.c.ws
  IN IF s # NoSocket /\ x.b.readyState[s] = "OPEN"
       THEN [x EXCEPT !.b.sent = Append(@, [sock |-> s, id |-> id, result |-> result]),
                      !.b.jobs[id].state = "done"]
       ELSE [x EXCEPT !.b.jobs[id].state = "done"]

\* the frames the server sends: commands with the ids of the relay, and a
\* frame of another type
ClientFrames ==
  [type : {"command"}, id : Ids, action : {"get_robot_state", "fly"},
   params : {Params(TRUE, "")}]
    \cup [type : {"command"}, id : Ids, action : {"move_base"},
          params : {Params(TRUE, "forward"), Params(TRUE, "sideways"),
                    Params(FALSE, "")}]
    \cup [type : {"status"}, id : {UndefinedId}, action : {""}, params : {Params(FALSE, "")}]

\* ws.onmessage on s, up to the await, and past it when the promise of
\* executeCommand is settled already; ids are the relay's and come once
OnMessage(s, msg) ==
  /\ browser.readyState[s] = "OPEN"
  /\ msg.id \notin DOMAIN browser.jobs
  /\ IF msg.type # "command"
       THEN Becomes(Client)
       ELSE LET p == ExecuteCommand(msg.action, msg.params)
                x == [Client EXCEPT !.b.jobs =
                        With(@, msg.id, [sock |-> s, action |-> msg.action,
                                         params |-> msg.params, state |-> "running",
                                         cut |-> FALSE])]
            IN Becomes(IF p.state = "pending" THEN x ELSE Reply(x, msg.id, p.result))

\* the command of frame id finishes and onmessage resumes after its await
Finish(id) ==
  /\ id \in DOMAIN browser.jobs
  /\ browser.jobs[id].state = "running"
  /\ Resolves(browser.jobs[id].params)
  /\ Becomes(Reply(Client, id, CommandResult("", "moved")))

\* the client in a page that connects once, to a server that accepts or
\* fails its connections, drops them, and sends command frames
NextClient ==
  \/ ClientConnect
  \/ \E s \in ClientSockets : SocketOpens(s)
  \/ \E s \in ClientSockets : SocketCloses(s)
  \/ \E t \in DOMAIN browser.timeouts : ReconnectTimer(t)
  \/ \E s \in ClientSockets, msg \in ClientFrames : OnMessage(s, msg)
  \/ \E id \in Ids : Finish(id)

SpecClient == Init /\ [][NextClient]_vars

\* a timeout that is armed fires, and a command that can finish does
FairSpecClient ==
  /\ SpecClient
  /\ \A t \in 1..(MaxSockets + 1) : WF_vars(ReconnectTimer(t))
  /\ \A id \in Ids : WF_vars(Finish(id))

\* the connection of the client alone, in a page that connects, and may
\* disconnect and connect again: no command frames
NextLink ==
  \/ ClientConnect
  \/ \E s \in ClientSockets : SocketOpens(s)
  \/ \E s \in ClientSockets : SocketCloses(s)
  \/ \E t \in DOMAIN browser.timeouts : ReconnectTimer(t)
  \/ ClientDisconnect

SpecLink == Init /\ [][NextLink]_vars

FairSpecLink ==
  /\ SpecLink
  /\ \A t \in 1..(MaxSockets + 1) : WF_vars(ReconnectTimer(t))

\* ================================================================ claims

Issued == DOMAIN promises
Pending == DOMAIN pendingCommands
Settled(id) == id \in Issued /\ promises[id].state # "pending"

\* the table entry of id points at the promise and the timer of the call
\* that allocated id
OwnEntry(id) == pendingCommands[id] = [promise |-> id, timer |-> id]

\* no promise has had resolve/reject called on it more than once, and a command
\* is in the pending table exactly while its promise is unsettled
SettledAtMostOnce ==
  \A id \in Issued :
    /\ promises[id].settles <= 1
    /\ (promises[id].state = "pending") = (promises[id].settles = 0)
    /\ (promises[id].state = "pending") = (id \in Pending)

\* a table entry, once removed, is never put back
RemovedOnce ==
  [][\A id \in Issued : id \notin Pending => id \notin DOMAIN pendingCommands']_vars

\* every accepted command is eventually settled
EventuallySettled == \A id \in Ids : (id \in Issued) ~> Settled(id)

\* C1: under every interleaving of results, timer expiries and closes, each
\* accepted command is settled exactly once and leaves the pending table
\* exactly once: never twice, and never left unsettled forever
C1_SettledExactlyOnce ==
  /\ []SettledAtMostOnce
  /\ RemovedOnce
  /\ EventuallySettled

\* two commands were accepted; one was settled by a result arriving after the
\* other had been rejected
C1_Witness ==
  /\ Cardinality(Issued) >= 2
  /\ \A id \in Issued : Settled(id)
  /\ \E a, b \in Issued : promises[a].state = "resolved" /\ promises[b].state = "rejected"

\* C2: every accepted command gets an id strictly greater than the id of every
\* command accepted before it, so no id is issued twice, whatever was settled,
\* closed or reconnected in between
C2_IdsStrictlyIncreasing ==
  /\ \A i, j \in DOMAIN frames : i < j => frames[i].id < frames[j].id
  /\ \A i \in DOMAIN frames : frames[i].id < commandIdCounter

\* a second command was accepted after the first one had been settled and the
\* table was empty again, on another connection
C2_Witness ==
  /\ Len(frames) >= 2
  /\ lastOp.op = "send" /\ lastOp.ok
  /\ Pending = {lastOp.id}
  /\ readyState[1] = "CLOSED"

\* C3: a close with K commands pending rejects each of the K promises with the
\* disconnected error, exactly once, and leaves the table (and no timer) behind
C3_CloseRejectsAll ==
  [][lastOp'.op = "close" =>
       /\ \A id \in Pending :
            /\ promises[id].state = "pending"
            /\ promises'[id].state = "rejected"
            /\ promises'[id].kind = "Disconnected"
            /\ promises'[id].settles = 1
       /\ \A id \in Issued \ Pending : promises'[id] = promises[id]
       /\ pendingCommands' = EmptyMap
       /\ timers' = EmptyMap]_vars

\* a close has just rejected two pending commands
C3_Witness ==
  /\ lastOp.op = "close"
  /\ Cardinality({id \in Issued : promises[id].kind = "Disconnected"}) >= 2

\* C4 as stated: a command is rejected only once its own timeout has elapsed
C4_RejectedOnlyAfterTimeout ==
  \A id \in Issued : promises[id].state = "rejected" => promises[id].due

\* a command is rejected at most once; with the timeout error only once its own
\* timeout has elapsed, and before that only with the disconnected error
RejectedOnceAndNotEarly ==
  \A id \in Issued :
    promises[id].state = "rejected" =>
      /\ promises[id].settles = 1
      /\ promises[id].kind \in {"Timeout", "Disconnected"}
      /\ (promises[id].kind = "Timeout" => promises[id].due)

\* C4 (amended): a command whose result never arrives is rejected exactly once:
\* with the timeout error only after its own timeout has elapsed, or earlier
\* with the disconnected error when a connection closes first
C4_RejectedOnceTimeoutNotEarly ==
  /\ []RejectedOnceAndNotEarly
  /\ EventuallySettled

\* a command was rejected by its timer
C4_Witness ==
  /\ lastOp.op = "timer"
  /\ promises[lastOp.id].kind = "Timeout"
  /\ promises[lastOp.id].due

\* C5: a command_result frame whose id is pending resolves the promise of the
\* command sent with that id, with the frame's result, cancels its timer and
\* removes its entry; no other command is touched
C5_ResultResolvesOwnCommand ==
  [][(lastOp'.op = "message" /\ lastOp'.ok) =>
       LET id == lastOp'.id IN
       /\ id \in Pending
       /\ OwnEntry(id)
       /\ frames[id + 1].id = id
       /\ promises'[id] = [state |-> "resolved", kind |-> "result",
                           result |-> lastOp'.result, settles |-> 1, due |-> FALSE]
       /\ timers' = Without(timers, id)
       /\ pendingCommands' = Without(pendingCommands, id)
       /\ \A other \in Issued \ {id} : promises'[other] = promises[other]]_vars

\* with two commands outstanding, the result of the younger one arrived first
C5_Witness ==
  /\ lastOp.op = "message" /\ lastOp.ok
  /\ lastOp.id = 1
  /\ promises[1].state = "resolved"
  /\ 0 \in Pending

\* C6: replacing the registered connection settles nothing, and the close of a
\* connection that is not the registered one rejects no pending command
C6_OnlyRegisteredCloseRejects ==
  [][/\ (simulationSocket' # simulationSocket /\ simulationSocket' # NoSocket)
          => UNCHANGED <<promises, pendingCommands, timers>>
     /\ (lastOp'.op = "close" /\ lastOp'.id # simulationSocket)
          => UNCHANGED <<promises, pendingCommands, timers>>]_vars

\* a connection is registered and its readyState is OPEN
RegisteredOpen ==
  /\ simulationSocket \in Sockets
  /\ readyState[simulationSocket] = "OPEN"

\* C7: with no registered connection, or one that is not open, the call is
\* rejected as not connected and changes neither the counter, the table, the
\* timers nor the frames sent; an open registered connection accepts the call
C7_NotConnectedChangesNothing ==
  [][lastOp'.op = "send" =>
       /\ lastOp'.ok = RegisteredOpen
       /\ ~lastOp'.ok =>
            /\ lastOp'.result = ErrorValue("NotConnected")
            /\ UNCHANGED relayVars]_vars

\* a call was rejected while a connection was registered, but closing
C7_Witness ==
  /\ lastOp.op = "send" /\ ~lastOp.ok
  /\ simulationSocket # NoSocket
  /\ readyState[simulationSocket] = "CLOSING"
  /\ Pending # {}

\* C8: a command_result frame whose id is not pending changes nothing
C8_UnmatchedResultIgnored ==
  [][(lastOp'.op = "message" /\ ~lastOp'.ok) => UNCHANGED relayVars]_vars

\* a result arrived for a command that had already been settled, while
\* another command was pending
C8_Witness ==
  /\ lastOp.op = "message" /\ ~lastOp.ok
  /\ Settled(lastOp.id)
  /\ Pending # {}

\* C9: a timer expiry rejects and removes its own command only; every other
\* pending command keeps its entry, its timer and its unsettled promise
C9_TimeoutOnlyOwnCommand ==
  [][lastOp'.op = "timer" =>
       LET id == lastOp'.id IN
       /\ promises'[id].state = "rejected"
       /\ promises'[id].kind = "Timeout"
       /\ pendingCommands' = Without(pendingCommands, id)
       /\ timers' = Without(timers, id)
       /\ \A other \in Issued \ {id} : promises'[other] = promises[other]
       /\ \A other \in Pending \ {id} :
            /\ promises'[other].state = "pending"
            /\ other \in DOMAIN pendingCommands'
            /\ other \in DOMAIN timers']_vars

\* a command was resolved by its own result after the timer of another
\* command had rejected that one
C9_Witness ==
  /\ lastOp.op = "message" /\ lastOp.ok
  /\ promises[lastOp.id].state = "resolved"
  /\ \E other \in Issued : promises[other].kind = "Timeout"

TerminalTypes == {"done", "aborted", "error"}

\* the positions of the terminal events in the response of r
Terminals(r) == {i \in DOMAIN stream[r] : stream[r][i].type \in TerminalTypes}

\* the /api/chat handler of r has passed both checks
Accepted(r) == calls[r].pc \notin {"idle", "refused400", "refused503"}

\* C10: the events written to the response of an accepted /api/chat request
\* hold at most one terminal event, nothing follows it, and a request whose
\* handler has ended has written exactly one, of the type it ended with
C10_OneTerminalEventLast ==
  \A r \in Reqs :
    /\ Cardinality(Terminals(r)) <= 1
    /\ Terminals(r) \subseteq {Len(stream[r])}
    /\ (calls[r].pc \in TerminalTypes) = (Terminals(r) # {})
    /\ calls[r].pc \in TerminalTypes =>
         stream[r][Len(stream[r])].type = calls[r].pc
    /\ ~Accepted(r) => stream[r] = <<>>

\* a request was cancelled after its turn had announced tools, and its
\* response ends with the aborted event
C10_Witness ==
  \E r \in Reqs :
    /\ calls[r].pc = "aborted"
    /\ \E i \in DOMAIN stream[r] : stream[r][i].type = "tool_call"
    /\ stream[r][Len(stream[r])].type = "aborted"

\* the awaits at which a processMessage call can be suspended
Awaits == {"awaitModel", "awaitTool", "awaitStop"}

\* C11: every processMessage call that has started eventually terminates as
\* done, aborted or error, whether the simulation answers, disconnects or
\* stays silent: from some point on no call is suspended at an await
C11_CallsTerminate ==
  <>[](\A r \in Reqs : calls[r].pc \notin Awaits)

\* a call is about to resume from a tool command that was never answered and
\* was rejected by its timer
C11_Witness ==
  \E r \in Reqs :
    /\ calls[r].pc = "awaitTool"
    /\ calls[r].wait # UndefinedId
    /\ promises[calls[r].wait].state = "rejected"
    /\ promises[calls[r].wait].kind = "Timeout"

\* the frame of the best-effort stop command with correlation id id
StopFrame(id) ==
  [type |-> "command", id |-> id, action |-> "stop_motors", params |-> NoParams]

\* this step sends nothing but, at most, one stop command
SendsAtMostStop ==
  frames' = frames \/ frames' = Append(frames, StopFrame(commandIdCounter))

\* C12: when the token of a call r was flagged by abort() while r was
\* suspended on a model request or on a tool's round trip and that operation
\* then completes normally, r goes to its abort handling and from there ends
\* as aborted: it writes no done event, announces no further model request or
\* tool, and sends no command but the stop command
C12_AbortedCallEndsAborted ==
  [][\A r \in Reqs :
       /\ (/\ aborted[r]
           /\ (\E turn \in CallTurns : ModelReturns(r, turn)) \/ ToolReturns(r))
          => /\ calls'[r].pc = "awaitStop"
             /\ stream'[r] = stream[r]
             /\ SendsAtMostStop
       /\ (calls[r].pc = "awaitStop" /\ calls'[r] # calls[r])
          => /\ calls'[r].pc = "aborted"
             /\ stream'[r] = Append(stream[r], Event("aborted", <<"Interrupted by user">>))
             /\ frames' = frames]_vars

\* abort() was called while the call was suspended on the round trip of a tool
\* it had announced, and the call has reached its abort handling
C12_Witness ==
  \E r \in Reqs :
    /\ aborted[r]
    /\ calls[r].pc = "awaitStop"
    /\ stream[r][Len(stream[r])] = Event("status", <<"Executing", "observe_scene">>)

\* the number of aborted events written to the response of r
AbortedEvents(r) ==
  Cardinality({i \in DOMAIN stream[r] : stream[r][i].type = "aborted"})

\* the stop commands put on the socket
StopFrames == {i \in DOMAIN frames : frames[i].action = "stop_motors"}

\* C13: a cancelled call has attempted the stop command exactly once, when it
\* entered its abort handling, and has written exactly one aborted event when
\* it has ended; a call that was not cancelled has done neither
C13_OneAbortedOneStop ==
  /\ \A r \in Reqs :
       /\ calls[r].pc = "aborted" => AbortedEvents(r) = 1 /\ stopAttempts[r] = 1
       /\ calls[r].pc = "awaitStop" => AbortedEvents(r) = 0 /\ stopAttempts[r] = 1
       /\ calls[r].pc \notin {"aborted", "awaitStop"} =>
            AbortedEvents(r) = 0 /\ stopAttempts[r] = 0
  /\ Cardinality(StopFrames) <= Cardinality({r \in Reqs : stopAttempts[r] > 0})

\* a call was cancelled in a turn with two tool invocations, after the first
\* had been executed and while the second was still queued; its stop command
\* went out and it has ended
C13_Witness ==
  \E r \in Reqs :
    /\ calls[r].pc = "aborted"
    /\ stopAttempts[r] = 1
    /\ StopFrames # {}
    /\ \E i \in DOMAIN stream[r] :
         stream[r][i] = Event("status", <<"Executing", "observe_scene">>)
    /\ \A i \in DOMAIN stream[r] : stream[r][i] # Event("status", <<"Executing", "fly">>)

\* no processMessage call is in flight
NoneInFlight == \A r \in Reqs : calls[r].pc \notin Awaits

\* C14: abort() called while no processMessage call is in flight changes
\* nothing: no event is written, no command is sent, and the conversation
\* history, the session defaults and the cancellation tokens stay as they are
C14_AbortWithoutCallIsNoOp ==
  [][(NoneInFlight /\ Abort)
       => UNCHANGED <<stream, frames, commandIdCounter, pendingCommands, timers,
                      conversationHistory, dataSourceOverrides, abortController,
                      aborted, calls, stopAttempts>>]_vars

\* a call has ended, none is in flight, and the controller holds no token:
\* abort() finds nothing to flag
C14_Witness ==
  /\ NoneInFlight
  /\ \E r \in Reqs : calls[r].pc \in TerminalTypes
  /\ abortController = NoToken
  /\ ENABLED Abort

\* the model requests announced in the events st: one Thinking... event each
Requests(st) ==
  Cardinality({i \in DOMAIN st : st[i] = Event("status", <<"Thinking...">>)})

\* the model requests r has issued
ModelRequests(r) == Requests(stream[r])

\* C15: a call whose model returns tool invocations in every turn never
\* issues more than 20 model requests; when it is not cancelled and no model
\* request fails it returns after exactly 20; and it does terminate
C15_StopsAtIterationCap ==
  /\ [](ModelRequests(1) <= MaxIterations)
  /\ [](calls[1].pc = "done" => ModelRequests(1) = MaxIterations)
  /\ (calls[1].pc \in Awaits) ~> (calls[1].pc \in TerminalTypes)

\* the call has returned after 20 model requests, each followed by its tools
C15_Witness ==
  /\ calls[1].pc = "done"
  /\ ModelRequests(1) = 20
  /\ Len(conversationHistory) = 41
  /\ commandIdCounter = 20

\* the text segments of a turn that holds nothing but text, in its order
Segments(turn) == [i \in 1..Len(turn.content) |-> turn.content[i].text]

\* the turns without a tool invocation
TextTurns == {turn \in CallTurns : \A i \in DOMAIN turn.content : turn.content[i].type = "text"}

\* C16: when the first model turn of a call that was not cancelled holds no
\* tool invocation, the call returns at once: it has issued that one model
\* request, sends no command, announces no tool, and its done event carries
\* the turn's text segments in their order
C16_TextTurnEndsCall ==
  [][\A r \in Reqs, turn \in TextTurns :
       (ModelTurn(r, turn) /\ ModelRequests(r) = 1 /\ ~aborted[r])
         => /\ calls'[r].pc = "done"
            /\ stream'[r] = stream[r] \o [i \in 1..Len(turn.content) |->
                                           Event("text", <<turn.content[i].text>>)]
                                      \o <<Event("done", Segments(turn))>>
            /\ Requests(stream'[r]) = 1
            /\ UNCHANGED <<frames, commandIdCounter, pendingCommands>>]_vars

\* a call has returned the two segments of its first turn, which held no tool
\* invocation, in their order
C16_Witness ==
  \E r \in Reqs :
    /\ calls[r].pc = "done"
    /\ stream[r] = <<Event("status", <<"Thinking...">>), Event("text", <<"a">>),
                      Event("text", <<"d">>), Event("done", <<"a", "d">>)>>
    /\ frames = <<>>

IsToolFrame(f) == f.action # "stop_motors"
IsExecuting(ev) == ev.type = "status" /\ ev.text # <<"Thinking...">>

\* the tool commands put on the socket, and the tools announced as executing
ToolFrames == SelectSeq(frames, IsToolFrame)
Executing(r) == SelectSeq(stream[r], IsExecuting)

\* C17: a call dispatches the invocations of a turn in the order of the turn,
\* and sends the command of the next one only after the command of the one
\* before has settled: it never has two commands outstanding
C17_ToolsOneAtATimeInOrder ==
  /\ Cardinality(DOMAIN pendingCommands) <= 1
  /\ \A i \in DOMAIN ToolFrames :
       ToolFrames[i].action = IF i % 2 = 1 THEN "move_base" ELSE "navigate_to"
  /\ \A i \in DOMAIN Executing(1) :
       Executing(1)[i].text[2] = TurnSeq.content[((i - 1) % 3) + 1].name
  /\ \A i \in DOMAIN ToolFrames : ToolFrames[i].id = i - 1
  /\ calls[1].pc = "awaitTool" /\ calls[1].wait # UndefinedId =>
       DOMAIN pendingCommands \subseteq {calls[1].wait}

\* the third invocation of a turn is on its round trip: the first was sent and
\* has settled, the second was dispatched without a command
C17_Witness ==
  /\ calls[1].pc = "awaitTool"
  /\ calls[1].k = 3
  /\ DOMAIN pendingCommands = {1}
  /\ Len(ToolFrames) = 2
  /\ Len(Executing(1)) = 3

\* the failures a tool execution can end with: the rejections of the relay,
\* the dispatcher's own refusal, and an error payload from the simulation
Failures == {"NotConnected", "Timeout", "Disconnected", "Unknown tool: fly", "failed"}

\* the tool result a failed invocation is fed back as
ErrorResult(toolBlock, message) ==
  [type |-> "tool_result", tool_use_id |-> toolBlock.id,
   content |-> <<Block("text", "Error: ", message)>>]

FedBack ==
  {conversationHistory[i].content[j].content[1].detail :
     <<i, j>> \in {p \in (DOMAIN conversationHistory) \X (1..2) :
                     /\ conversationHistory[p[1]].kind = "tool_results"
                     /\ p[2] \in DOMAIN conversationHistory[p[1]].content}}

Rejections == {"NotConnected", "Timeout", "Disconnected"}

\* C19: whatever tool a call dispatches and however the promise that
\* executeTool awaits settles, the promise of executeTool resolves; when
\* sendCommand rejected (not connected, timeout, disconnected) it resolves to
\* the error object that carries the rejection's message
C19_ExecuteToolNeverRejects ==
  \A r \in Reqs :
    (calls[r].pc = "awaitTool" /\ Ready(calls[r]))
      => LET p == AwaitedPromise(calls[r])
             out == ExecuteToolSettled(p)
         IN /\ out.state = "resolved"
            /\ p.state = "resolved" => out.value = p.result
            /\ p.state = "rejected" =>
                 /\ p.kind \in Rejections
                 /\ out.value = Value(TRUE, p.kind, FALSE, FALSE, FALSE)

\* the command of a dispatched tool was rejected because the connection
\* closed, and executeTool is about to return
C19_Witness ==
  \E r \in Reqs :
    /\ calls[r].pc = "awaitTool"
    /\ calls[r].toolUseBlocks[calls[r].k].name = "navigate_to"
    /\ calls[r].wait # UndefinedId
    /\ promises[calls[r].wait].state = "rejected"
    /\ promises[calls[r].wait].kind = "Disconnected"

\* the tool names of the catalog
Catalog == {"observe_scene", "move_base", "move_arm", "set_gripper", "move_head",
            "get_robot_state", "get_scene_objects", "navigate_to", "reset_robot"}

\* the name of the invocation the call c is executing
Dispatched(c) == c.toolUseBlocks[c.k].name

\* C20: dispatching a name that is not in the catalog sends nothing and
\* consumes no correlation id, and executeTool resolves at once to the error
\* object that names the tool
C20_UnknownToolSendsNothing ==
  /\ [](\A r \in Reqs :
          (calls[r].pc = "awaitTool" /\ Dispatched(calls[r]) \notin Catalog)
            => /\ Ready(calls[r])
               /\ calls[r].wait = UndefinedId
               /\ ExecuteToolSettled(AwaitedPromise(calls[r])) =
                    [state |-> "resolved",
                     value |-> Value(TRUE, "Unknown tool: " \o Dispatched(calls[r]),
                                     FALSE, FALSE, FALSE)])
  /\ [][\A r \in Reqs :
          (/\ calls'[r].pc = "awaitTool"
           /\ calls'[r].k # calls[r].k \/ calls[r].pc # "awaitTool"
           /\ Dispatched(calls'[r]) \notin Catalog)
            => UNCHANGED <<frames, commandIdCounter, pendingCommands, timers>>]_vars

\* the unknown name in the middle of a turn has been dispatched: the command
\* of the tool before it is the only one that was sent
C20_Witness ==
  \E r \in Reqs :
    /\ calls[r].pc = "awaitTool"
    /\ Dispatched(calls[r]) = "fly"
    /\ Len(frames) = 1
    /\ commandIdCounter = 1

\* the value a source is sent with: the explicit one, else the session
\* default, else true
Precedence(explicit, default) ==
  CASE explicit \in {"T", "F"} -> explicit
    [] explicit = "U" /\ default \in {"T", "F"} -> default
    [] OTHER -> "T"

\* the observe_scene frame this step puts on the socket carries, for each
\* source, the value that Precedence gives
SendsResolvedSources ==
  (Len(frames') = Len(frames) + 1 /\ frames'[Len(frames')].action = "observe_scene")
    => LET explicit == calls'[1].toolUseBlocks[calls'[1].k].input
           sent == frames'[Len(frames')].params.sources
       IN /\ sent[1] = Precedence(explicit.head_camera, dataSourceOverrides.head_camera)
          /\ sent[2] = Precedence(explicit.orbit_camera, dataSourceOverrides.orbit_camera)
          /\ sent[3] = Precedence(explicit.state_data, dataSourceOverrides.state_data)

\* the session defaults after this chat request, when it is accepted: the
\* toggles its body gives, and for the others what they were (true from the
\* constructor on); a refused request leaves them alone
KeepsSessionDefaults ==
  \A body \in SourceBodies :
    Chat(1, body) =>
      \A f \in {"head_camera", "orbit_camera", "state_data"} :
        dataSourceOverrides'[f] =
          IF calls'[1].pc \notin {"refused400", "refused503"}
             /\ body.hasDataSources /\ body.dataSources[f] # "U"
            THEN body.dataSources[f]
            ELSE dataSourceOverrides[f]

\* C21: each source of an observe_scene command is sent with the explicit
\* value of the invocation when it gives one, otherwise with the session
\* default, otherwise with true, each source independently of the others; the
\* session default of a source is what the last chat request set it to
C21_SourcePrecedence ==
  /\ [][SendsResolvedSources /\ KeepsSessionDefaults]_vars
  /\ [](\A f \in DOMAIN dataSourceOverrides : dataSourceOverrides[f] \in {"T", "F"})

\* an observation was sent with head camera off by session default alone,
\* orbit camera on by an explicit value over a session default of off, and
\* state data on with neither given
C21_Witness ==
  /\ calls[1].pc = "awaitTool"
  /\ dataSourceOverrides = [head_camera |-> "F", orbit_camera |-> "F", state_data |-> "T"]
  /\ calls[1].toolUseBlocks[1].input = [NoSources EXCEPT !.orbit_camera = "T"]
  /\ frames[1].params.sources = <<"F", "T", "T">>

IsToolResults(m) == m.kind = "tool_results"

\* the batches of tool results in a conversation
Batches(h) == SelectSeq(h, IsToolResults)

\* m answers the invocations of the assistant turn: one tool result per
\* invocation, in their order, each with the id of its invocation
Answers(m, turn) ==
  LET invocations == ToolsOf(turn.content) IN
  /\ m.role = "user"
  /\ Len(m.content) = Len(invocations)
  /\ \A j \in DOMAIN invocations :
       /\ m.content[j].type = "tool_result"
       /\ m.content[j].tool_use_id = invocations[j].id

\* C22: the step in which the last tool of a turn has been executed (and the
\* call goes on to the next model request, or returns) appends exactly one
\* message to the conversation, a user message that answers the invocations
\* of the turn before it one by one, in order and by id; no other step adds
\* a batch of tool results
C22_OneBatchPerToolTurn ==
  [][LET completing == {r \in Reqs : /\ calls[r].pc = "awaitTool"
                                     /\ calls'[r].pc \in {"awaitModel", "done"}}
         n == Len(conversationHistory)
     IN /\ \A r \in completing :
             /\ Len(conversationHistory') = n + 1
             /\ SubSeq(conversationHistory', 1, n) = conversationHistory
             /\ conversationHistory[n].role = "assistant"
             /\ ToolsOf(conversationHistory[n].content) = calls[r].toolUseBlocks
             /\ Answers(conversationHistory'[n + 1], conversationHistory[n])
        /\ completing = {} =>
             Len(Batches(conversationHistory')) = Len(Batches(conversationHistory))]_vars

\* the three invocations of a turn were executed and their results are the
\* last message of the conversation, in the order of the turn
C22_Witness ==
  /\ calls[1].pc = "awaitModel"
  /\ Len(conversationHistory) = 3
  /\ conversationHistory[3].role = "user"
  /\ [j \in 1..3 |-> conversationHistory[3].content[j].tool_use_id] = <<"tu1", "tu2", "tu3">>

\* every tool result the calls have built so far: those of the turn being
\* executed, and those appended to the conversation
ToolResults ==
  UNION {{calls[r].toolResults[j] : j \in DOMAIN calls[r].toolResults} : r \in Reqs}
    \cup UNION {{m.content[j] : j \in DOMAIN m.content} :
                  m \in {conversationHistory[i] :
                           i \in {k \in DOMAIN conversationHistory :
                                    IsToolResults(conversationHistory[k])}}}

\* C23: every tool result that has been built, from whatever the relay
\* delivered (a result object with any fields, or a rejection), holds at
\* least one content block
C23_ToolResultNeverEmpty ==
  \A t \in ToolResults : Len(t.content) >= 1

\* the results of a turn are in the conversation: the first was built from a
\* result with nothing but an image, the second from a result without any field
C23_Witness ==
  \E i \in DOMAIN conversationHistory :
    /\ IsToolResults(conversationHistory[i])
    /\ conversationHistory[i].content[1].content =
         <<Block("image", "head_camera_image", ""),
           Block("text", "[Head camera view above]", "")>>
    /\ conversationHistory[i].content[2].content =
         <<Block("text", "Command executed successfully.", "")>>

\* the tool result the call r has built in this step
Built(r) ==
  IF calls'[r].pc = "awaitTool"
    THEN calls'[r].toolResults[Len(calls'[r].toolResults)]
    ELSE LET m == conversationHistory'[Len(conversationHistory')]
         IN m.content[Len(m.content)]

\* the call r builds a tool result in this step, from the value raw
Builds(r) ==
  /\ calls[r].pc = "awaitTool"
  /\ calls'[r].pc \in {"awaitTool", "awaitModel", "done"}
  /\ calls'[r] # calls[r]

\* C24 as stated: a raw result that carries an error field is mapped to
\* exactly one text block, which holds the error
C24_ErrorFieldShortCircuits ==
  [][\A r \in Reqs :
       (Builds(r) /\ Awaited(calls[r]).hasError)
         => /\ Len(Built(r).content) = 1
            /\ Built(r).content[1].type = "text"
            /\ Built(r).content[1].detail = Awaited(calls[r]).error]_vars

\* C24 (amended): a raw result that carries a non-empty error field is mapped
\* to exactly one text block, which holds the error message, whatever image
\* and data fields it carries besides
C24_ErrorMessageShortCircuits ==
  [][\A r \in Reqs :
       (Builds(r) /\ Awaited(calls[r]).error # "")
         => Built(r).content =
              <<Block("text", "Error: ", Awaited(calls[r]).error)>>]_vars

\* the result that carried an error message together with both images and
\* data was mapped to the one error text
C24_Witness ==
  \E t \in ToolResults : t.content = <<Block("text", "Error: ", "blurred")>>

\* the processMessage calls that are in flight
InFlight == {r \in OverlapReqs : calls[r].pc \in Awaits}

\* C25: whatever /api/chat requests arrive, at most one processMessage call
\* is in flight on the controller at any time, so that no two calls read or
\* write the conversation history concurrently
C25_SingleFlight == Cardinality(InFlight) <= 1

\* the call r is suspended on the round trip of a tool's command, which is
\* still pending
OnRoundTrip(r) ==
  /\ calls[r].pc = "awaitTool"
  /\ calls[r].wait # UndefinedId
  /\ promises[calls[r].wait].state = "pending"

\* C26: abort() called while the command of a tool is on its round trip only
\* flags the token: it settles and removes no pending command, cancels no
\* timer and sends nothing. The call stays suspended until the command has
\* settled by its own result, timeout or disconnect, and only then, at the
\* checkpoint after the await, goes to its abort handling and attempts the
\* stop command
C26_AbortIsCooperative ==
  [][\A r \in Reqs :
       /\ (aborted'[r] /\ ~aborted[r])
            => /\ UNCHANGED relayVars
               /\ UNCHANGED <<calls, stream, stopAttempts, conversationHistory>>
       /\ OnRoundTrip(r)
            => /\ calls'[r] = calls[r]
               /\ stopAttempts'[r] = stopAttempts[r]
               /\ promises'[calls[r].wait].state # "pending"
                    => /\ promises'[calls[r].wait].kind \in {"result", "Timeout", "Disconnected"}
                       /\ aborted' = aborted
       /\ (aborted[r] /\ calls[r].pc = "awaitTool" /\ calls'[r] # calls[r])
            => /\ ~OnRoundTrip(r)
               /\ calls'[r].pc = "awaitStop"
               /\ stopAttempts'[r] = stopAttempts[r] + 1]_vars

\* abort() was called while the command of a tool was on its round trip: the
\* token is flagged and the command is still pending, with its timer armed,
\* and no stop command has been attempted
C26_Witness ==
  \E r \in Reqs :
    /\ aborted[r]
    /\ OnRoundTrip(r)
    /\ calls[r].wait \in DOMAIN pendingCommands
    /\ calls[r].wait \in DOMAIN timers
    /\ stopAttempts[r] = 0
    /\ StopFrames = {}

\* the accepted commands whose promise is not settled
Unsettled == {id \in Issued : promises[id].state = "pending"}

\* C27: in every state of the relay the armed timers are those of the ids in
\* the pending table, and these are the accepted commands whose promise is
\* not settled; a connection close leaves no timer armed and no promise
\* unsettled
C27_TimersMatchPending ==
  /\ [](DOMAIN timers = Pending /\ Pending = Unsettled)
  /\ [][lastOp'.op = "close" => (DOMAIN timers' = {} /\ Unsettled' = {})]_vars

\* a close has rejected a command whose delay had elapsed but whose timer
\* callback had not run, and cancelled that timer; another command had been
\* resolved before
C27_Witness ==
  /\ lastOp.op = "close"
  /\ timers = EmptyMap
  /\ \E id \in Issued : promises[id].kind = "Disconnected" /\ promises[id].due
  /\ \E id \in Issued : promises[id].state = "resolved"

\* the turns that hold tool invocations and yet signal natural completion
EndTurnsWithTools ==
  {turn \in CallTurns : turn.stop_reason = "end_turn" /\ ToolsOf(turn.content) # <<>>}

\* C28: when the model returns a turn with stop reason end_turn that holds
\* tool invocations, none of them is dispatched: no tool is announced as
\* executing and no tool command is sent. A call that was not cancelled
\* returns at once, its done event carrying the text gathered so far; a
\* cancelled call goes to its abort handling
C28_EndTurnRunsNoTools ==
  [][\A r \in Reqs, turn \in EndTurnsWithTools :
       ModelTurn(r, turn) =>
         /\ Executing(r)' = Executing(r)
         /\ ToolFrames' = ToolFrames
         /\ IF aborted[r]
              THEN calls'[r].pc = "awaitStop"
              ELSE /\ calls'[r].pc = "done"
                   /\ UNCHANGED <<frames, commandIdCounter, pendingCommands, timers>>
                   /\ stream'[r] =
                        stream[r] \o EventsOf(turn.content)
                          \o <<Event("done", calls[r].finalText \o TextsOf(turn.content))>>]_vars

\* the first turn of a call held an invocation of observe_scene and signalled
\* end_turn: the invocation was announced as a tool call, the call has
\* returned the turn's text, and nothing was sent
C28_Witness ==
  \E r \in Reqs :
    /\ calls[r].pc = "done"
    /\ stream[r] = <<Event("status", <<"Thinking...">>),
                      Event("tool_call", <<"observe_scene">>),
                      Event("text", <<"c">>),
                      Event("done", <<"c">>)>>
    /\ frames = <<>>
    /\ commandIdCounter = 0

\* the call r enters its abort handling in this step
EntersAbortHandling(r) == calls'[r].pc = "awaitStop" /\ calls[r].pc # "awaitStop"

\* the response of r gets its aborted event in this step
WritesAborted(r) ==
  /\ stream'[r] # stream[r]
  /\ stream'[r][Len(stream'[r])].type = "aborted"

\* C29: a call that is cancelled sends the stop command with a timeout of
\* 5000 ms (or has it rejected at once when the simulation is not connected)
\* and stays suspended until the stop command has settled; only then is the
\* aborted event written. However the stop command settles (result, not
\* connected, timeout, disconnect), the call ends as aborted, never as error
C29_StopSettlesBeforeAborted ==
  [][\A r \in Reqs :
       /\ EntersAbortHandling(r) =>
            IF IsOpen(simulationSocket)
              THEN /\ frames' = Append(frames, StopFrame(commandIdCounter))
                   /\ timers'[commandIdCounter] = [delay |-> 5000, due |-> FALSE]
                   /\ calls'[r].wait = commandIdCounter
                   /\ promises'[commandIdCounter].state = "pending"
              ELSE /\ frames' = frames
                   /\ calls'[r].wait = UndefinedId
                   /\ calls'[r].imm.state = "rejected"
                   /\ calls'[r].imm.kind = "NotConnected"
       /\ (calls[r].pc = "awaitStop" /\ calls'[r] # calls[r]) =>
            /\ AwaitedPromise(calls[r]).state # "pending"
            /\ AwaitedPromise(calls[r]).kind \in
                 {"result", "NotConnected", "Timeout", "Disconnected"}
            /\ calls'[r].pc = "aborted"
            /\ stream'[r] = Append(stream[r], Event("aborted", <<"Interrupted by user">>))
       /\ WritesAborted(r) => calls[r].pc = "awaitStop"]_vars

\* a call was cancelled after the simulation had disconnected: its stop
\* command was rejected without being sent, and the call has ended as aborted
C29_Witness ==
  \E r \in Reqs :
    /\ calls[r].pc = "aborted"
    /\ stopAttempts[r] = 1
    /\ StopFrames = {}
    /\ Len(frames) = 1
    /\ stream[r][Len(stream[r])] = Event("aborted", <<"Interrupted by user">>)

\* the call r executes the last invocation of the turn of its 20th model
\* request, and completes it in this step
CompletesLastTurn(r) ==
  /\ calls[r].pc = "awaitTool"
  /\ calls'[r] # calls[r]
  /\ ModelRequests(r) = 20
  /\ calls[r].k = Len(calls[r].toolUseBlocks)
  /\ ~aborted[r]

\* C30: when the tools of the 20th turn have been executed the call returns
\* as it does on natural completion: the done event carries the text of all
\* turns, the controller drops its token, no further model request is made,
\* and the conversation ends with the user message that holds the tool
\* results of that last turn
C30_CapReturnsAccumulatedText ==
  [][\A r \in Reqs :
       CompletesLastTurn(r) =>
         LET n == Len(conversationHistory) IN
         /\ calls'[r].pc = "done"
         /\ stream'[r] = Append(stream[r], Event("done", calls[r].finalText))
         /\ calls[r].finalText = [i \in 1..20 |-> "b"]
         /\ abortController' = NoToken
         /\ Len(conversationHistory') = n + 1
         /\ conversationHistory'[n + 1].role = "user"
         /\ IsToolResults(conversationHistory'[n + 1])
         /\ Answers(conversationHistory'[n + 1], conversationHistory[n])]_vars

\* a call has run out of iterations: its response ends with the done event
\* that carries the text of its 20 turns, and the conversation ends with the
\* tool results of the last turn
C30_Witness ==
  /\ calls[1].pc = "done"
  /\ stream[1][Len(stream[1])] = Event("done", [i \in 1..20 |-> "b"])
  /\ conversationHistory[Len(conversationHistory)].role = "user"
  /\ IsToolResults(conversationHistory[Len(conversationHistory)])
  /\ conversationHistory[Len(conversationHistory) - 1].role = "assistant"

\* the message this step appends to the conversation
Appended == conversationHistory'[Len(conversationHistory')]

\* C31: during one call the conversation only grows at its end, by one
\* message per step and never touching the messages it holds: the user
\* message when the call starts, the assistant turn as the model returned it
\* when a model request returns, and the batch of tool results when the last
\* tool of a turn has been executed
C31_HistoryAppendOnly ==
  [][/\ \/ conversationHistory' = conversationHistory
        \/ /\ Len(conversationHistory') = Len(conversationHistory) + 1
           /\ SubSeq(conversationHistory', 1, Len(conversationHistory)) = conversationHistory
           /\ \/ calls[1].pc = "idle" /\ Appended = Msg("user", "text", <<"message">>)
              \/ calls[1].pc = "awaitModel" /\ Appended.role = "assistant"
              \/ /\ calls[1].pc = "awaitTool"
                 /\ IsToolResults(Appended)
                 /\ conversationHistory[Len(conversationHistory)].role = "assistant"
     /\ \A turn \in CallTurns :
          (ModelTurn(1, turn) /\ ~aborted[1])
            => conversationHistory' =
                 Append(conversationHistory, Msg("assistant", "turn", turn.content))
     /\ (calls[1].pc = "idle" /\ calls'[1].pc = "awaitModel")
          => Len(conversationHistory') = Len(conversationHistory) + 1]_vars

\* a call has ended after a turn with tools and a turn of text: the
\* conversation holds the user message, the first turn with its tool
\* invocations, the tool results and the second turn, in this order
C31_Witness ==
  /\ calls[1].pc = "done"
  /\ Len(conversationHistory) = 4
  /\ conversationHistory[1] = Msg("user", "text", <<"message">>)
  /\ conversationHistory[2] = Msg("assistant", "turn", TurnTools.content)
  /\ IsToolResults(conversationHistory[3])
  /\ conversationHistory[4] = Msg("assistant", "turn", TurnText.content)

\* C32: with calls made one after another, the controller holds the token of
\* the call that is in flight and no token when none is; abort() flags only
\* the token of the call in flight at that moment, so a call never starts
\* cancelled, whatever abort() did during or after the calls before it
C32_TokenPerCall ==
  /\ [](\A r \in OverlapReqs :
          /\ calls[r].pc \in Awaits => abortController = r
          /\ calls[r].pc = "idle" => ~aborted[r])
  /\ [](AllQuiescent => abortController = NoToken)
  /\ [][\A r \in OverlapReqs :
          /\ (aborted'[r] /\ ~aborted[r]) => calls[r].pc \in Awaits
          /\ (calls[r].pc = "idle" /\ calls'[r].pc \in Awaits) => ~aborted'[r]]_vars

\* the first call was cancelled and has ended as aborted; the second call is
\* in flight with a token of its own that is not flagged
C32_Witness ==
  /\ calls[1].pc = "aborted"
  /\ aborted[1]
  /\ calls[2].pc = "awaitTool"
  /\ abortController = 2
  /\ ~aborted[2]

\* the assistant message at position i of the conversation is answered: the
\* message after it holds the results of its tool invocations
Answered(i) ==
  /\ i < Len(conversationHistory)
  /\ IsToolResults(conversationHistory[i + 1])
  /\ Answers(conversationHistory[i + 1], conversationHistory[i])

\* C34: once a call has ended, with whatever outcome, every assistant
\* message of the conversation that holds tool invocations is directly
\* followed by the user message that answers them one by one
C34_InvocationsAnswered ==
  (\E r \in Reqs : calls[r].pc \in TerminalTypes)
    => \A i \in DOMAIN conversationHistory :
         (/\ conversationHistory[i].role = "assistant"
          /\ ToolsOf(conversationHistory[i].content) # <<>>)
           => Answered(i)

\* C35: whenever a call is in flight the controller holds a token, and it is
\* the token of a call that is in flight, so that abort() cancels one
C35_TokenWhileInFlight ==
  InFlight # {} => (abortController # NoToken /\ abortController \in InFlight)

\* C39: a chat request that is refused, for its message (400) or because the
\* simulation is not connected (503), starts no call and changes nothing: not
\* the conversation, the session defaults, the tokens, the id counter, the
\* pending table, nor anything the relay holds or has sent
C39_RefusedRequestChangesNothing ==
  [][\A r \in OverlapReqs, body \in GateBodies :
       Chat(r, body) =>
         /\ ~body.message => calls'[r].pc = "refused400"
         /\ (body.message /\ ~IsOpen(simulationSocket)) => calls'[r].pc = "refused503"
         /\ (body.message /\ IsOpen(simulationSocket)) => calls'[r].pc = "awaitModel"
         /\ calls'[r].pc \in {"refused400", "refused503"} =>
              /\ UNCHANGED <<conversationHistory, dataSourceOverrides, abortController,
                             aborted, stream, stopAttempts, toolTurns>>
              /\ UNCHANGED relayVars
              /\ calls' = [calls EXCEPT ![r].pc = calls'[r].pc]]_vars

\* a request was refused after the simulation had disconnected, while the
\* call of an earlier request was in flight with the conversation it had
\* started; the session defaults are as the constructor set them
C39_Witness ==
  /\ calls[2].pc = "refused503"
  /\ calls[1].pc \in Awaits
  /\ abortController = 1
  /\ Len(conversationHistory) >= 2
  /\ dataSourceOverrides = [head_camera |-> "T", orbit_camera |-> "T", state_data |-> "T"]

IsTextEvent(ev) == ev.type = "text"

\* the text events written to the response of r, in the order written
TextEvents(r) == SelectSeq(stream[r], IsTextEvent)

\* C40: the done event of a call carries the texts of all the text events
\* written to its response during the call, in the order they were written
C40_DoneTextIsStreamedText ==
  \A r \in Reqs :
    calls[r].pc = "done" =>
      stream[r][Len(stream[r])] =
        Event("done", [i \in 1..Len(TextEvents(r)) |-> TextEvents(r)[i].text[1]])

\* a call has ended after a turn with text and tools and a turn with two
\* text segments: its done event carries the three segments
C40_Witness ==
  \E r \in Reqs :
    /\ calls[r].pc = "done"
    /\ stream[r][Len(stream[r])] = Event("done", <<"b", "a", "d">>)
    /\ Len(TextEvents(r)) = 3

\* C33: a move_base call resolves once the movement is complete or its time
\* limit has passed, whatever its direction and amount: no call is still
\* stepping when more than the longer limit and one interval have elapsed
C33_MoveBaseResolves ==
  moveBase.state = "stepping" => moveBase.elapsed <= LINEAR_LIMIT + checkInterval

\* the sockets of the client that are connecting or connected
Live == {s \in ClientSockets : browser.readyState[s] \in {"CONNECTING", "OPEN"}}

\* C36: from a call of disconnect() until the page calls connect() again, no
\* reconnect timer is pending, and the client has no socket that is
\* connecting or connected
C36_StaysDisconnected ==
  clientLog.disconnected =>
    /\ DOMAIN browser.timeouts = {}
    /\ wsClient.reconnectTimer = NoTimer
    /\ Live = {}

\* the page has called connect() and never disconnect()
Unattended == clientLog.started /\ ~clientLog.everDisconnected

\* connect() is called in this step: a socket starts connecting
Attempt(s) ==
  browser.readyState[s] # "CONNECTING" /\ browser'.readyState[s] = "CONNECTING"

\* C37: while the page has not called disconnect(), a client whose
\* connection is gone has an attempt under way or one reconnect timer of the
\* reconnect interval pending, and goes on to make an attempt; at most one
\* timer is pending at any time, and an attempt made by the timer is made
\* when no socket of the client is connecting or connected
C37_RetriesUntilOpen ==
  /\ [](/\ Cardinality(DOMAIN browser.timeouts) <= 1
        /\ \A t \in DOMAIN browser.timeouts : browser.timeouts[t] = reconnectInterval
        /\ (Unattended /\ ~wsClient.connected) =>
              (Live # {} \/ wsClient.reconnectTimer \in DOMAIN browser.timeouts))
  /\ [][\A s \in ClientSockets :
          (Unattended /\ Attempt(s) /\ clientLog'.madeBy[s] = "timer")
            => (Live = {} /\ ~wsClient.connected)]_vars
  /\ (Unattended /\ Live = {}) ~> (Live # {} \/ clientLog.everDisconnected)

\* the connection the page made was lost, and the client is connected again
\* on a socket that its reconnect timer made
C37_Witness ==
  /\ Unattended
  /\ wsClient.connected
  /\ wsClient.ws # NoSocket
  /\ browser.readyState[wsClient.ws] = "OPEN"
  /\ clientLog.madeBy[wsClient.ws] = "timer"
  /\ wsClient.reconnectTimer = NoTimer

\* the frames the client has sent that answer command id
RepliesTo(id) ==
  {i \in DOMAIN browser.sent : browser.sent[i].id = id}

\* C38: every command frame the client receives is answered with one
\* command_result frame of its id, unless the connection it came on closes
C38_EveryCommandAnswered ==
  \A id \in Ids :
    (id \in DOMAIN browser.jobs)
      ~> (/\ id \in DOMAIN browser.jobs
          /\ browser.jobs[id].cut \/ Cardinality(RepliesTo(id)) = 1)

====
